---------------------------- MODULE Spec2Model ----------------------------
(***************************************************************************)
(* Message delivery and synchronisation layer of the two-party chat       *)
(* application: the Message Synchronizer (messageSync.ts, useMessages.ts), *)
(* the Outbound Send Pipeline (useSendMessage), the Server Message Store   *)
(* (Message.ts, db/index.ts, the api routes) and the Conversation Registry *)
(* (Conversation.ts).                                                      *)
(*                                                                         *)
(* The specifications share the variables:                                 *)
(*   SpecMerge : the pure merge functions applied to bounded inputs        *)
(*   SpecStore : the server store under interleaved requests               *)
(*   Spec      : one client's send pipeline and offline queue against the  *)
(*               create-message endpoint, each request handled as a whole  *)
(*   SpecLive  : Spec with a started attempt loop running to its end       *)
(*   SpecSync  : one client's poller and merge against the store           *)
(*   SpecSeq   : get-or-create-conversation calls made one after another   *)
(*   SpecApi   : the conversation and message endpoints, request by request*)
(*   SpecSeen  : the mark-as-seen endpoints over accepted messages         *)
(*   SpecList  : the list-messages endpoint over stores of several sizes   *)
(*   SpecPoll  : one usePolling subscriber, its timer and fetches in flight *)
(*   SpecFeed  : useRealtimeMessages, push events and polls of one client  *)
(*   SpecFallback : one RealtimeFallback object, its polling loop          *)
(*   SpecConvs : useConversations, the conversation list of one client     *)
(*   SpecCache : the local conversation cache under set and append         *)
(*   SpecOrder : two poll responses merged in both orders                  *)
(*   SpecPage  : useMessages with loadMore (SpecPageLive: polls keep being *)
(*               served)                                                   *)
(*   SpecImage : the create-message endpoint with an image URL in the body *)
(***************************************************************************)
EXTENDS Integers, Sequences, FiniteSets, TLC

\* ------------------------------------------------------------------ bounds

MaxLen == 2
MaxMessages == 2
MaxCalls == 2
MaxCompose == 2
MaxFlaps == 2
MaxClock == 3

\* ------------------------------------------------------- program constants

retryAttempts == 3
retryDelay == 2000
initialLimit == 50
CacheCap == 100
MaxContent == 1000

\* --------------------------------------------------------------- variables

VARIABLES
  existing, incoming, merged, remerged, hookMerged, mpc,
  conversations, messages, clock, indexEnforced, reqs, calls, gocResults,
  online, queuedMessages, offlineQueue, cache, localMessages, lastData,
  send, composed, surfaced, acked, removed, flaps, sends,
  api, poller,
  feed, fb, convView, paging

mergeVars == <<existing, incoming, merged, remerged, hookMerged, mpc>>
storeVars == <<conversations, messages, clock, indexEnforced>>
reqVars == <<reqs, calls, gocResults>>
clientVars == <<online, queuedMessages, offlineQueue, cache, localMessages,
                lastData, send, composed, surfaced, acked, removed, flaps,
                sends>>
apiVars == <<api>>
pollVars == <<poller>>
hookVars == <<feed, fb, convView, paging>>
vars == <<mergeVars, storeVars, reqVars, clientVars, apiVars, pollVars, hookVars>>

\* ----------------------------------------------------------------- helpers

Last(s) == s[Len(s)]
Front(s) == SubSeq(s, 1, Len(s) - 1)
Range(s) == {s[i] : i \in 1..Len(s)}

SeqsUpTo(S, n) == UNION {[1..k -> S] : k \in 0..n}

\* Array.prototype.filter by position: the elements of s at the positions of keep from i on
\* (the array and the positions are evaluated once)
KeepIdx(s, keep, i) ==
  LET Filter(array, positions) ==
        LET Kept(k) == k >= i /\ k \in positions
        IN CHOOSE r \in {[n \in 1..Len(idx) |-> array[idx[n]]] :
                          idx \in {SelectSeq([k \in 1..Len(array) |-> k], Kept)}} : TRUE
  IN CHOOSE r \in {Filter(array, positions) : array \in {s}, positions \in {keep}} : TRUE

\* Array.prototype.filter((m, index, self) => index === self.findIndex(x => x.id === m.id))
FirstById(s) ==
  KeepIdx(s, {i \in 1..Len(s) : \A j \in 1..(i - 1) : s[j].id # s[i].id}, 1)

\* Array.prototype.sort((a, b) => time(b.createdAt) - time(a.createdAt)): stable, newest first
\* (the array is evaluated once)
SortNewestFirst(s) ==
  LET Before(a, b) == \/ a.m.createdAt > b.m.createdAt
                      \/ a.m.createdAt = b.m.createdAt /\ a.at < b.at
      Sort(array) == SortSeq([k \in 1..Len(array) |-> [at |-> k, m |-> array[k]]], Before)
  IN CHOOSE r \in {[k \in 1..Len(sorted) |-> sorted[k].m] :
                    sorted \in {Sort(array) : array \in {s}}} : TRUE

\* ------------------------------------------------- Message Synchronizer

Statuses == {"sent", "delivered", "seen"}

MergeNoDedup(a, b) == SortNewestFirst(a \o b)

\* messageSync.ts mergeAndDeduplicate
mergeAndDeduplicate(a, b) == SortNewestFirst(FirstById(a \o b))

\* useMessages.ts merge effect: the setMessages updater's result
MergeEffect(prev, new) == SortNewestFirst(FirstById(prev \o new))


\* ------------------------------------------------------ Server Message Store

UserIds == {1, 2}
NoId == 0

\* Message.ts MessageSchema: a stored message document
NewMessage(conversationId, senderId, recipientId, content, now) ==
  [conversationId |-> conversationId, senderId |-> senderId,
   recipientId |-> recipientId, content |-> content,
   status |-> "sent", seenAt |-> NoId, createdAt |-> now]

\* Conversation.ts ConversationSchema: a stored conversation document
NewConversation(sortedIds) ==
  [participantIds |-> sortedIds, lastMessage |-> NoId, lastMessageTime |-> NoId]

AsGiven(a, b) == <<a, b>>

\* Conversation.ts findOrCreateConversation: [userId1, userId2].sort()
SortedIds(a, b) == IF a <= b THEN <<a, b>> ELSE <<b, a>>

\* Conversation.ts isParticipant
isParticipant(conv, userId) == \E i \in 1..Len(conv.participantIds) : conv.participantIds[i] = userId

\* findOne({participantIds: {$all: sortedIds, $size: 2}}): the first match, NoId when none
FindConversation(convs, a, b) ==
  LET hits == {c \in 1..Len(convs) :
                 /\ Len(convs[c].participantIds) = 2
                 /\ isParticipant(convs[c], a)
                 /\ isParticipant(convs[c], b)}
  IN IF hits = {} THEN NoId ELSE CHOOSE c \in hits : \A d \in hits : c <= d

\* Conversation.ts ConversationSchema.index({participantIds: 1}, {unique: true}):
\* whether saving a conversation for the pair hits the uniqueness constraint
DuplicateKey(convs, sortedIds) ==
  /\ indexEnforced
  /\ \E c \in 1..Len(convs) : convs[c].participantIds = sortedIds

\* Message.ts markAsSeen on a document loaded with status snap: the stored document after save()
AfterMarkAsSeen(doc, snap, now) ==
  IF snap # "seen" THEN [doc EXCEPT !.status = "seen", !.seenAt = now] ELSE doc

\* Message.ts markAsDelivered on a document loaded with status snap: the stored document after save()
AfterMarkAsDelivered(doc, snap) ==
  IF snap = "sent" THEN [doc EXCEPT !.status = "delivered"] ELSE doc

MarkWholeConversation(msgs, conversationId, userId, now) ==
  [i \in 1..Len(msgs) |->
     IF msgs[i].conversationId = conversationId /\ msgs[i].status # "seen"
     THEN [msgs[i] EXCEPT !.status = "seen", !.seenAt = now]
     ELSE msgs[i]]

\* Message.ts markMessagesAsSeen: the updateMany
AfterMarkMessagesAsSeen(msgs, conversationId, userId, now) ==
  [i \in 1..Len(msgs) |->
     IF /\ msgs[i].conversationId = conversationId
        /\ msgs[i].recipientId = userId
        /\ msgs[i].status # "seen"
     THEN [msgs[i] EXCEPT !.status = "seen", !.seenAt = now]
     ELSE msgs[i]]

\* Message.ts getConversationMessages: find({conversationId}).sort({createdAt: -1}).limit(limit).skip(skip)
\* a limit of 0 sets no limit, and a negative limit asks for one batch of that many
getConversationMessages(msgs, conversationId, limit, skip) ==
  LET InConversation(m) == msgs[m.id].conversationId = conversationId
      Newer(a, b) == a.createdAt > b.createdAt \/ (a.createdAt = b.createdAt /\ a.id < b.id)
      ids == SelectSeq([i \in 1..Len(msgs) |-> [id |-> i, createdAt |-> msgs[i].createdAt]],
                       InConversation)
      Window(sorted) ==
        LET most == IF limit = 0 THEN Len(sorted) ELSE IF limit < 0 THEN 0 - limit ELSE limit
            from == IF skip + 1 > Len(sorted) + 1 THEN Len(sorted) + 1 ELSE skip + 1
            upto == IF skip + most > Len(sorted) THEN Len(sorted) ELSE skip + most
        IN SubSeq(sorted, from, upto)
  IN CHOOSE r \in {Window(sorted) : sorted \in {SortSeq(ids, Newer)}} : TRUE

\* ------------------------------------------- requests in flight on the server

Slots == {1, 2}

IdleReq == [op |-> "idle", pc |-> "idle", a |-> NoId, b |-> NoId, id |-> NoId, snap |-> "none"]

Rank(status) == CASE status = "sent" -> 0 [] status = "delivered" -> 1 [] status = "seen" -> 2


\* a message body: text characters followed by pad whitespace characters; tag names the
\* composition it came from; retry is the attempt that sent it
Body(tag, text, pad) == [tag |-> tag, text |-> text, pad |-> pad, retry |-> 0]

\* the send pipeline when no sendMessageWithRetry call is running; wait is the delay slept
\* before the current attempt, last the response status of the attempt before it (0 when
\* the fetch itself failed)
IdleSend ==
  [pc |-> "idle", attempt |-> 0, id |-> NoId, content |-> Body(0, 0, 0), from |-> "none",
   wait |-> 0, last |-> 0]

\* ----------------------------------------------------------- initial states

InitMergeIdle ==
  /\ existing = <<>> /\ incoming = <<>> /\ merged = <<>> /\ remerged = <<>>
  /\ hookMerged = <<>> /\ mpc = "off"

\* no endpoint call has been served yet
NoCall == [op |-> "none", caller |-> NoId, target |-> NoId, status |-> 0, result |-> NoId]

\* a JSON value a fetch resolves to: null, or a message list of n messages
Null == [kind |-> "null", n |-> 0]
Fetched(n) == [kind |-> "messages", n |-> n]

\* no cycle has started or resolved yet
NoEvent == [event |-> "none", cycle |-> 0, value |-> Null]

\* usePolling before its effects have run: the useState and useRef initial values
IdlePoller ==
  [phase |-> "new", enabled |-> FALSE, timer |-> FALSE, inflight |-> {}, cycles |-> 0,
   source |-> 0, data |-> Null, lastDataRef |-> Null, error |-> FALSE, isPolling |-> FALSE,
   lastUpdate |-> 0, dataVersion |-> 0, onErrorCalls |-> 0, applied |-> 0, now |-> 1,
   last |-> NoEvent]

\* useMessages next to useRealtimeMessages, before either has received anything: each
\* client's message list and how often onNewMessage fired per message identity; what the
\* channel delivered; the channel's state
IdleFeed ==
  [poll |-> [list |-> <<>>, fired |-> <<>>, synced |-> <<>>],
   push |-> [list |-> <<>>, fired |-> <<>>],
   delivered |-> {}, channel |-> "subscribed", enableFallback |-> TRUE]

\* no RealtimeFallback object has been constructed
NoFallback ==
  [made |-> FALSE, client |-> FALSE, isOnline |-> TRUE, subscribed |-> FALSE,
   destroyed |-> FALSE, loop |-> "none", met |-> FALSE, calls |-> 0]

\* useConversations before its first poll: the displayed list, the poller's data and how
\* often onNewConversation fired per conversation
IdleConvView ==
  [list |-> <<>>, data |-> [set |-> FALSE, value |-> <<>>], fired |-> <<>>, last |-> "none",
   polls |-> 0]

\* useMessages pagination state: skipState and hasMoreState
FirstPage == [skip |-> 0, hasMore |-> TRUE, loads |-> 0]

InitReqs ==
  /\ reqs = [r \in Slots |-> IdleReq]
  /\ calls = 0
  /\ gocResults = {}
  /\ api = NoCall
  /\ poller = IdlePoller
  /\ feed = IdleFeed /\ fb = NoFallback /\ convView = IdleConvView /\ paging = FirstPage

InitClientIdle ==
  /\ online = TRUE /\ queuedMessages = <<>> /\ offlineQueue = <<>>
  /\ cache = <<>> /\ localMessages = <<>> /\ lastData = [set |-> FALSE, messages |-> <<>>]
  /\ send = IdleSend
  /\ composed = 0 /\ surfaced = {} /\ acked = {} /\ removed = {}
  /\ flaps = 0 /\ sends = <<>>

\* ============================================================== SpecMerge

MsgIds == {1, 2, 3}
\* identities 1 and 2 were created in the same millisecond, identity 3 later
CreatedAtOf(id) == IF id = 3 THEN 2 ELSE 1
MsgUniverse == {[id |-> i, createdAt |-> CreatedAtOf(i), status |-> st] :
                  i \in MsgIds, st \in {"sent", "seen"}}

InitMerge ==
  /\ existing \in SeqsUpTo(MsgUniverse, MaxLen)
  /\ incoming \in SeqsUpTo(MsgUniverse, MaxLen)
  /\ merged = <<>> /\ remerged = <<>> /\ hookMerged = <<>>
  /\ mpc = "input"
  /\ conversations = <<>> /\ messages = <<>> /\ clock = 1 /\ indexEnforced = TRUE
  /\ InitReqs
  /\ InitClientIdle

\* merge(existing, incoming), by the utility and by the useMessages effect
ApplyMerge ==
  /\ mpc = "input"
  /\ merged' = mergeAndDeduplicate(existing, incoming)
  /\ hookMerged' = MergeEffect(existing, incoming)
  /\ mpc' = "merged"
  /\ UNCHANGED apiVars
  /\ UNCHANGED pollVars
  /\ UNCHANGED hookVars
  /\ UNCHANGED <<existing, incoming, remerged, storeVars, reqVars, clientVars>>

\* merge(merge(existing, incoming), incoming)
ApplyMergeAgain ==
  /\ mpc = "merged"
  /\ remerged' = mergeAndDeduplicate(merged, incoming)
  /\ mpc' = "remerged"
  /\ UNCHANGED apiVars
  /\ UNCHANGED pollVars
  /\ UNCHANGED hookVars
  /\ UNCHANGED <<existing, incoming, merged, hookMerged, storeVars, reqVars, clientVars>>

NextMerge == ApplyMerge \/ ApplyMergeAgain

SpecMerge == InitMerge /\ [][NextMerge]_vars

IdsOf(s) == {s[i].id : i \in 1..Len(s)}

OnePerIdentity(out, ins) ==
  /\ IdsOf(out) = IdsOf(ins)
  /\ \A i, j \in 1..Len(out) : out[i].id = out[j].id => i = j

IncomingWins(out) ==
  \A i \in 1..Len(out) : out[i].id \in IdsOf(incoming) => out[i] \in Range(incoming)

\* C5: merge(existing, incoming), by mergeAndDeduplicate and by the useMessages merge,
\* holds exactly one entry per identity, and an identity that incoming holds is
\* represented by an incoming copy
C5_MergePrefersIncoming ==
  mpc # "input" =>
    /\ OnePerIdentity(merged, existing \o incoming)
    /\ OnePerIdentity(hookMerged, existing \o incoming)
    /\ IncomingWins(merged)
    /\ IncomingWins(hookMerged)

\* C6: merge is idempotent: merge(merge(A, B), B) = merge(A, B), entry by entry in order
C6_MergeIdempotent == mpc = "remerged" => remerged = merged

\* a collision with different field values, and two entries created in the same millisecond
C6_Witness ==
  /\ mpc = "remerged"
  /\ \E i \in 1..Len(existing), j \in 1..Len(incoming) :
       existing[i].id = incoming[j].id /\ existing[i] # incoming[j]
  /\ \E i, j \in 1..Len(merged) : i # j /\ merged[i].createdAt = merged[j].createdAt


\* ============================================================== SpecStore

InitStore ==
  /\ conversations = <<>> /\ messages = <<>> /\ clock = 1
  /\ indexEnforced \in BOOLEAN
  /\ InitReqs
  /\ InitMergeIdle
  /\ InitClientIdle

Idle(r) == reqs[r].op = "idle"
Release(r) == reqs' = [reqs EXCEPT ![r] = IdleReq]

\* db/index.ts getOrCreateConversation(userId1, userId2) is called
BeginGetOrCreate(r, a, b) ==
  /\ Idle(r) /\ calls < MaxCalls /\ a # b
  /\ reqs' = [reqs EXCEPT ![r] = [IdleReq EXCEPT !.op = "getOrCreate", !.pc = "find", !.a = a, !.b = b]]
  /\ calls' = calls + 1
  /\ UNCHANGED apiVars
  /\ UNCHANGED pollVars
  /\ UNCHANGED hookVars
  /\ UNCHANGED <<storeVars, gocResults, mergeVars, clientVars>>

\* Conversation.ts findOrCreateConversation: await this.findOne(...)
FindOne(r) ==
  /\ reqs[r].op = "getOrCreate" /\ reqs[r].pc = "find"
  /\ LET found == FindConversation(conversations, reqs[r].a, reqs[r].b)
     IN IF found # NoId
        THEN /\ gocResults' = gocResults \cup {[a |-> reqs[r].a, b |-> reqs[r].b, ok |-> TRUE, conv |-> found]}
             /\ Release(r)
        ELSE /\ reqs' = [reqs EXCEPT ![r].pc = "save"]
             /\ UNCHANGED gocResults
  /\ UNCHANGED apiVars
  /\ UNCHANGED pollVars
  /\ UNCHANGED hookVars
  /\ UNCHANGED <<storeVars, calls, mergeVars, clientVars>>

\* Conversation.ts findOrCreateConversation: await conversation.save(); a duplicate-key
\* error is not caught and rejects the call
SaveConversation(r) ==
  /\ reqs[r].op = "getOrCreate" /\ reqs[r].pc = "save"
  /\ LET ids == SortedIds(reqs[r].a, reqs[r].b)
     IN IF DuplicateKey(conversations, ids)
        THEN /\ gocResults' = gocResults \cup {[a |-> reqs[r].a, b |-> reqs[r].b, ok |-> FALSE, conv |-> NoId]}
             /\ UNCHANGED conversations
        ELSE /\ conversations' = Append(conversations, NewConversation(ids))
             /\ gocResults' = gocResults \cup
                  {[a |-> reqs[r].a, b |-> reqs[r].b, ok |-> TRUE, conv |-> Len(conversations) + 1]}
  /\ Release(r)
  /\ UNCHANGED apiVars
  /\ UNCHANGED pollVars
  /\ UNCHANGED hookVars
  /\ UNCHANGED <<messages, clock, indexEnforced, calls, mergeVars, clientVars>>

\* db/index.ts sendMessage(conversationId, senderId, recipientId, content) is called by the
\* create-message route for a conversation the sender participates in
BeginSendMessage(r, c, sender, recipient) ==
  /\ Idle(r) /\ Len(messages) < MaxMessages
  /\ c \in 1..Len(conversations) /\ isParticipant(conversations[c], sender)
  /\ recipient # sender
  /\ reqs' = [reqs EXCEPT ![r] = [IdleReq EXCEPT !.op = "sendMessage", !.pc = "saveMessage",
                                                 !.a = sender, !.b = recipient, !.id = c]]
  /\ UNCHANGED apiVars
  /\ UNCHANGED pollVars
  /\ UNCHANGED hookVars
  /\ UNCHANGED <<storeVars, calls, gocResults, mergeVars, clientVars>>

\* db/index.ts sendMessage: await message.save()
SaveMessage(r) ==
  /\ reqs[r].op = "sendMessage" /\ reqs[r].pc = "saveMessage"
  /\ Len(messages) < MaxMessages
  /\ messages' = Append(messages, NewMessage(reqs[r].id, reqs[r].a, reqs[r].b, Body(0, 2, 0), clock))
  /\ clock' = clock + 1
  /\ reqs' = [reqs EXCEPT ![r].pc = "updateLast", ![r].snap = "none",
                          ![r].b = Len(messages) + 1]
  /\ UNCHANGED apiVars
  /\ UNCHANGED pollVars
  /\ UNCHANGED hookVars
  /\ UNCHANGED <<conversations, indexEnforced, calls, gocResults, mergeVars, clientVars>>

\* db/index.ts sendMessage: await Conversation.findByIdAndUpdate(...)
UpdateLastMessage(r) ==
  /\ reqs[r].op = "sendMessage" /\ reqs[r].pc = "updateLast"
  /\ conversations' = [conversations EXCEPT
        ![reqs[r].id].lastMessage = reqs[r].b,
        ![reqs[r].id].lastMessageTime = messages[reqs[r].b].createdAt]
  /\ Release(r)
  /\ UNCHANGED apiVars
  /\ UNCHANGED pollVars
  /\ UNCHANGED hookVars
  /\ UNCHANGED <<messages, clock, indexEnforced, calls, gocResults, mergeVars, clientVars>>

\* Message.findById(messageId): a request loads the document it will call op on
FindById(r, m, op) ==
  /\ Idle(r) /\ m \in 1..Len(messages)
  /\ reqs' = [reqs EXCEPT ![r] = [IdleReq EXCEPT !.op = op, !.pc = "loaded", !.id = m,
                                                 !.snap = messages[m].status]]
  /\ UNCHANGED apiVars
  /\ UNCHANGED pollVars
  /\ UNCHANGED hookVars
  /\ UNCHANGED <<storeVars, calls, gocResults, mergeVars, clientVars>>

\* Message.ts markAsSeen on the loaded document
MarkAsSeen(r) ==
  /\ reqs[r].op = "markAsSeen" /\ reqs[r].pc = "loaded"
  /\ clock < MaxClock
  /\ messages' = [messages EXCEPT ![reqs[r].id] = AfterMarkAsSeen(@, reqs[r].snap, clock)]
  /\ clock' = clock + 1
  /\ Release(r)
  /\ UNCHANGED apiVars
  /\ UNCHANGED pollVars
  /\ UNCHANGED hookVars
  /\ UNCHANGED <<conversations, indexEnforced, calls, gocResults, mergeVars, clientVars>>

\* Message.ts markAsDelivered on the loaded document
MarkAsDelivered(r) ==
  /\ reqs[r].op = "markAsDelivered" /\ reqs[r].pc = "loaded"
  /\ messages' = [messages EXCEPT ![reqs[r].id] = AfterMarkAsDelivered(@, reqs[r].snap)]
  /\ Release(r)
  /\ UNCHANGED apiVars
  /\ UNCHANGED pollVars
  /\ UNCHANGED hookVars
  /\ UNCHANGED <<conversations, clock, indexEnforced, calls, gocResults, mergeVars, clientVars>>

\* db/index.ts markMessagesAsSeen(conversationId, userId): one updateMany
MarkMessagesAsSeen(c, u) ==
  /\ c \in 1..Len(conversations)
  /\ clock < MaxClock
  /\ messages' = AfterMarkMessagesAsSeen(messages, c, u, clock)
  /\ messages' # messages
  /\ clock' = clock + 1
  /\ UNCHANGED apiVars
  /\ UNCHANGED pollVars
  /\ UNCHANGED hookVars
  /\ UNCHANGED <<conversations, indexEnforced, reqVars, mergeVars, clientVars>>

NextStore ==
  \/ \E r \in Slots, a, b \in UserIds : BeginGetOrCreate(r, a, b)
  \/ \E r \in Slots : FindOne(r)
  \/ \E r \in Slots : SaveConversation(r)
  \/ \E r \in Slots, c \in 1..MaxCalls, a, b \in UserIds : BeginSendMessage(r, c, a, b)
  \/ \E r \in Slots : SaveMessage(r)
  \/ \E r \in Slots : UpdateLastMessage(r)
  \/ \E r \in Slots, m \in 1..MaxMessages, op \in {"markAsSeen", "markAsDelivered"} : FindById(r, m, op)
  \/ \E r \in Slots : MarkAsSeen(r)
  \/ \E r \in Slots : MarkAsDelivered(r)
  \/ \E c \in 1..MaxCalls, u \in UserIds : MarkMessagesAsSeen(c, u)

SpecStore == InitStore /\ [][NextStore]_vars

\* C7: the stored status of a message never moves backward along sent, delivered, seen
C7_StatusMonotonic ==
  [][\A m \in 1..Len(messages) : Rank(messages'[m].status) >= Rank(messages[m].status)]_vars

\* C8: a stored message has a seen timestamp exactly when its status is seen
C8_SeenAtIffSeen ==
  \A m \in 1..Len(messages) : (messages[m].seenAt # NoId) <=> (messages[m].status = "seen")

PairOf(c) == {conversations[c].participantIds[i] : i \in 1..Len(conversations[c].participantIds)}

\* C10: the store never holds two conversations for one unordered pair, and every
\* getOrCreate call for the pair returns the same conversation
C10_OneConversationPerPair ==
  /\ \A c, d \in 1..Len(conversations) : PairOf(c) = PairOf(d) => c = d
  /\ \A x, y \in gocResults : {x.a, x.b} = {y.a, y.b} => (x.ok /\ y.ok /\ x.conv = y.conv)

\* C11: a getOrCreate call whose save hits the uniqueness constraint returns the existing
\* conversation: no call ends in an error
C11_ConflictAbsorbed ==
  indexEnforced =>
    \A x \in gocResults : x.ok /\ x.conv = FindConversation(conversations, x.a, x.b)

\* no sendMessage call is between its save and its return
NoSendInProgress == \A r \in Slots : reqs[r].op # "sendMessage"

\* the most recently created message of conversation c, NoId when it has none
NewestMessage(c) ==
  LET own == {m \in 1..Len(messages) : messages[m].conversationId = c}
  IN IF own = {} THEN NoId ELSE CHOOSE m \in own : \A n \in own : n <= m

\* C15: whenever no send is in progress, each conversation's lastMessage is its most
\* recently created message and lastMessageTime is that message's creation time
C15_LastMessagePointer ==
  NoSendInProgress =>
    \A c \in 1..Len(conversations) :
      /\ conversations[c].lastMessage = NewestMessage(c)
      /\ NewestMessage(c) # NoId =>
            conversations[c].lastMessageTime = messages[NewestMessage(c)].createdAt


\* ================================================================ SpecSeq
\* getOrCreate calls one after the other, none overlapping another

MaxSeqCalls == 3

\* the users getOrCreate is called for
SeqUsers == {1, 2, 3}

\* Conversation.ts findOrCreateConversation run from call to return with nothing in between:
\* the outcome and the collection it leaves
findOrCreateConversation(convs, userId1, userId2) ==
  LET sortedIds == SortedIds(userId1, userId2)
      found == FindConversation(convs, userId1, userId2)
  IN IF found # NoId THEN [ok |-> TRUE, conv |-> found, convs |-> convs]
     ELSE IF DuplicateKey(convs, sortedIds) THEN [ok |-> FALSE, conv |-> NoId, convs |-> convs]
     ELSE [ok |-> TRUE, conv |-> Len(convs) + 1,
           convs |-> Append(convs, NewConversation(sortedIds))]

InitSeq ==
  /\ conversations = <<>> /\ messages = <<>> /\ clock = 1
  /\ indexEnforced \in BOOLEAN
  /\ InitReqs
  /\ InitMergeIdle
  /\ InitClientIdle

\* db/index.ts getOrCreateConversation(userId1, userId2), from call to return
GetOrCreate(a, b) ==
  /\ calls < MaxSeqCalls /\ a # b
  /\ LET out == findOrCreateConversation(conversations, a, b)
     IN /\ conversations' = out.convs
        /\ gocResults' = gocResults \cup
             {[a |-> a, b |-> b, ok |-> out.ok, conv |-> out.conv, call |-> calls + 1,
               created |-> Len(out.convs) > Len(conversations)]}
  /\ calls' = calls + 1
  /\ UNCHANGED <<messages, clock, indexEnforced, reqs, mergeVars, clientVars, apiVars, pollVars, hookVars>>

NextSeq == \E a, b \in SeqUsers : GetOrCreate(a, b)

SpecSeq == InitSeq /\ [][NextSeq]_vars

\* the stored participant list names exactly a and b, smaller identity first
IsSortedPair(ids, a, b) ==
  /\ Len(ids) = 2
  /\ {ids[1], ids[2]} = {a, b}
  /\ ids[1] <= ids[2]

\* C12: of the non-overlapping getOrCreate calls for one pair, in either argument order,
\* exactly the first creates a conversation, its participant list is the sorted pair,
\* and every call returns that conversation
C12_SequentialGetOrCreate ==
  /\ \A x \in gocResults :
       /\ x.ok
       /\ IsSortedPair(conversations[x.conv].participantIds, x.a, x.b)
       /\ x.created <=> (\A y \in gocResults : {y.a, y.b} = {x.a, x.b} => y.call >= x.call)
  /\ \A x, y \in gocResults : {x.a, x.b} = {y.a, y.b} => x.conv = y.conv
  /\ \A c, d \in 1..Len(conversations) : PairOf(c) = PairOf(d) => c = d

\* a pair was first asked for larger identity first, then in the other order, and a
\* second pair has a conversation too
C12_Witness ==
  /\ calls = MaxSeqCalls
  /\ Len(conversations) = 2
  /\ \E x, y \in gocResults : x.a = y.b /\ x.b = y.a /\ x.a > x.b /\ x.call < y.call


\* ============================================ create-message endpoint (whole)

\* "[Retry n] " put before the content by sendMessageWithRetry
RetryPrefixLen == 10

\* content.length
ContentLength(c) == c.text + c.pad + (IF c.retry > 0 THEN RetryPrefixLen ELSE 0)

\* content.trim().length: the pad is trailing whitespace
TrimmedLength(c) ==
  IF c.retry = 0 THEN c.text
  ELSE IF c.text = 0 THEN RetryPrefixLen - 1 ELSE RetryPrefixLen + c.text

\* content.trim()
Trimmed(c) == [c EXCEPT !.pad = 0]

\* a create-message request body; NoId stands for a field the body does not carry
\* an image URL as the schema's pattern reads it: the scheme before :// and the number of
\* characters after it; NoImage when the body carries no imageUrl
NoImage == [scheme |-> "none", rest |-> 0]

\* Message.ts MessageSchema imageUrl: match /^https?:\/\/.+/, not run on an absent value
imageUrlValid(imageUrl) ==
  imageUrl = NoImage \/ (imageUrl.scheme \in {"http", "https"} /\ imageUrl.rest >= 1)

RequestWithImage(conversationId, recipientId, content, imageUrl) ==
  [conversationId |-> conversationId, recipientId |-> recipientId, content |-> content,
   imageUrl |-> imageUrl]

Request(conversationId, recipientId, content) ==
  RequestWithImage(conversationId, recipientId, content, NoImage)

\* the users stored in the User collection; identity 4 names no user
ExistingUsers == {1, 2, 3}
UnknownUser == 4

\* Identities travel as strings. A user's canonical string (ObjectId.toString(), lower-case
\* hex) is written as the identity itself, another spelling of the same 12 bytes (upper-case
\* hex) as the identity plus VariantOffset, and Malformed is a string that is no ObjectId.
VariantOffset == 10
Malformed == 99

\* new Types.ObjectId(string) throws on a string that is no ObjectId
CastThrows(str) == str = Malformed

\* new Types.ObjectId(string): the identity the string spells
ObjectIdOf(str) == IF str > VariantOffset /\ str < Malformed THEN str - VariantOffset ELSE str

\* services/conversation.ts validateUsersExist, given the two ObjectIds
validateUsersExist(user1Id, user2Id) ==
  /\ user1Id \in ExistingUsers
  /\ user2Id \in ExistingUsers
  /\ user1Id # user2Id

\* messages/route.ts POST: the checks made before the conversation is resolved
PostValidation(senderId, req) ==
  IF req.recipientId = NoId \/ ContentLength(req.content) = 0 THEN "400 required"
  ELSE IF TrimmedLength(req.content) = 0 THEN "400 empty"
  ELSE IF ContentLength(req.content) > MaxContent THEN "400 too long"
  ELSE IF CastThrows(req.recipientId) THEN "500 cast"
  ELSE IF ~validateUsersExist(senderId, ObjectIdOf(req.recipientId)) THEN "400 users"
  ELSE "ok"

\* services/conversation.ts getConversationForUser: NoId for null
getConversationForUser(convs, conversationId, userId) ==
  IF conversationId \in 1..Len(convs) /\ isParticipant(convs[conversationId], userId)
  THEN conversationId ELSE NoId

\* messages/route.ts POST handled from request to response without interleaving:
\* the response status and the store it leaves
ServeCreateMessage(convs, msgs, now, senderId, req) ==
  LET check == PostValidation(senderId, req)
      same == [status |-> 400, convs |-> convs, msgs |-> msgs, now |-> now, id |-> NoId]
      thrown == [same EXCEPT !.status = 500]
      recipient == ObjectIdOf(req.recipientId)
  IN IF check = "500 cast" THEN thrown
     ELSE IF check # "ok" THEN same
     ELSE LET got == IF req.conversationId = NoId
                     THEN findOrCreateConversation(convs, senderId, recipient)
                     ELSE [ok |-> TRUE, convs |-> convs,
                           conv |-> getConversationForUser(convs, req.conversationId, senderId)]
          IN IF ~got.ok THEN thrown
             ELSE IF got.conv = NoId THEN same
             ELSE IF ~imageUrlValid(req.imageUrl) THEN [thrown EXCEPT !.convs = got.convs]
             ELSE LET msg == NewMessage(got.conv, senderId, recipient, Trimmed(req.content), now)
                      id == Len(msgs) + 1
                  IN [status |-> 201,
                      convs |-> [got.convs EXCEPT ![got.conv].lastMessage = id,
                                                  ![got.conv].lastMessageTime = now],
                      msgs |-> Append(msgs, msg),
                      now |-> now + 1,
                      id |-> id]

\* the response's message as the client holds it (formattedMessage)
FormatMessage(msgs, id) ==
  [id |-> id, createdAt |-> msgs[id].createdAt, status |-> msgs[id].status,
   seenAt |-> msgs[id].seenAt, tag |-> msgs[id].content.tag, shape |-> "ui"]

\* GET list-messages as the client holds it: result.messages
ListMessages(msgs, conversationId, limit, skip) ==
  CHOOSE r \in {[i \in 1..Len(page) |-> FormatMessage(msgs, page[i].id)] :
                 page \in {getConversationMessages(msgs, conversationId, limit, skip)}} : TRUE


\* ====================================================================== Spec
\* one client, signed in as Me, with the conversation with Peer open

Me == 1
Peer == 2
OpenConversation == 1

\* (text, pad) of the bodies composed: short, and over the limit
BodyShapes == {<<2, 0>>, <<1001, 0>>}

\* useSendMessage generateTempId: the n-th temporary identity
TempId(n) == 0 - n

\* useSendMessage createOptimisticMessage: a UI message, which carries id and no _id
createOptimisticMessage(content, tempId, now) ==
  [id |-> tempId, createdAt |-> now, status |-> "sent", seenAt |-> NoId,
   tag |-> content.tag, shape |-> "ui"]

\* messageSync.ts formatMessageForSync reads message._id.toString(): a TypeError unless
\* the argument is a SyncMessage
formatMessageForSyncThrows(message) == message.shape # "sync"

\* messageSync.ts formatMessageForSync
formatMessageForSync(message) == [message EXCEPT !.shape = "data"]

\* messageSync.ts MessageCache.setCache: messages.slice(-100)
setCache(list) ==
  IF Len(list) <= CacheCap THEN list ELSE SubSeq(list, Len(list) - CacheCap + 1, Len(list))

\* messageSync.ts MessageCache.addToCache
addToCache(cached, message) ==
  IF \E i \in 1..Len(cached) : cached[i].id = message.id THEN cached
  ELSE setCache(Append(cached, message))

\* messageSync.ts useMessageSync.saveToCache: UI messages to SyncMessage to MessageSyncData
saveToCache(list) ==
  setCache([i \in 1..Len(list) |-> formatMessageForSync([list[i] EXCEPT !.shape = "sync"])])

\* messageSync.ts useMessageSync.syncFromCache(conversationId, []) and convertSyncToUiMessage
syncFromCache(cached) ==
  LET m == mergeAndDeduplicate(<<>>, [i \in 1..Len(cached) |-> [cached[i] EXCEPT !.shape = "sync"]])
  IN [i \in 1..Len(m) |-> [m[i] EXCEPT !.shape = "ui"]]

QueueIds(q) == {q[i].id : i \in 1..Len(q)}

\* how many stored messages carry the body of composition t
Persisted(t) == Cardinality({m \in 1..Len(messages) : messages[m].content.tag = t})

InitClient ==
  /\ conversations = <<NewConversation(SortedIds(Me, Peer))>>
  /\ messages = <<>> /\ clock = 1 /\ indexEnforced = TRUE
  /\ InitReqs
  /\ InitMergeIdle
  /\ InitClientIdle

SendRecord(content, offline, queued, via, done, reached) ==
  [content |-> content, offline |-> offline, queued |-> queued, via |-> via,
   done |-> done, reached |-> reached, reconnected |-> FALSE, issued |-> Body(0, 0, 0)]

\* useSendMessage sendMessage(content, imageUrl, conversationId)
SendMessage(shape) ==
  /\ send.pc = "idle" /\ Len(sends) < MaxCompose
  /\ LET content == Body(Len(sends) + 1, shape[1], shape[2])
         tempId == TempId(composed + 1)
         optimisticMessage == createOptimisticMessage(content, tempId, clock)
     IN /\ composed' = composed + 1
        /\ IF ~online
           THEN /\ queuedMessages' = Append(queuedMessages,
                     [id |-> tempId, content |-> content, retryCount |-> 0, status |-> "queued"])
                /\ IF formatMessageForSyncThrows(optimisticMessage)
                   THEN /\ surfaced' = surfaced \cup {[tag |-> content.tag, error |-> "TypeError"]}
                        /\ UNCHANGED <<offlineQueue, cache>>
                   ELSE /\ offlineQueue' = Append(offlineQueue, formatMessageForSync(optimisticMessage))
                        /\ cache' = addToCache(cache, formatMessageForSync(optimisticMessage))
                        /\ UNCHANGED surfaced
                /\ sends' = Append(sends, SendRecord(content, TRUE, TRUE, "useSendMessage", TRUE, FALSE))
                /\ UNCHANGED send
           ELSE /\ send' = [pc |-> "attempt", attempt |-> 0, id |-> tempId,
                            content |-> content, from |-> "sendMessage",
                            wait |-> 0, last |-> 0]
                /\ sends' = Append(sends, SendRecord(content, FALSE, FALSE, "useSendMessage", FALSE, FALSE))
                /\ UNCHANGED <<queuedMessages, offlineQueue, cache, surfaced>>
  /\ UNCHANGED apiVars
  /\ UNCHANGED pollVars
  /\ UNCHANGED hookVars
  /\ UNCHANGED <<online, localMessages, lastData, acked, removed, flaps,
                 storeVars, reqVars, mergeVars>>


Outcomes == {"lost", "served", "responseLost"}

\* useSendMessage sendMessageWithRetry: one pass of the attempt loop, the fetch included;
\* after the last failed attempt, the catch block of sendMessage
Attempt(outcome) ==
  /\ send.pc = "attempt"
  /\ online \/ outcome = "lost"
  /\ LET t == send.content.tag
         messageContent == [send.content EXCEPT !.retry = send.attempt]
         req == Request(OpenConversation, NoId, messageContent)
         res == ServeCreateMessage(conversations, messages, clock, Me, req)
         served == outcome # "lost"
         ok == outcome = "served" /\ res.status = 201
     IN /\ IF served
           THEN conversations' = res.convs /\ messages' = res.msgs /\ clock' = res.now
           ELSE UNCHANGED <<conversations, messages, clock>>
        /\ IF ok
           THEN /\ queuedMessages' = KeepIdx(queuedMessages,
                     {i \in 1..Len(queuedMessages) : queuedMessages[i].id # send.id}, 1)
                /\ acked' = acked \cup {send.id}
                /\ removed' = removed \cup (QueueIds(queuedMessages) \cap {send.id})
                /\ send' = IdleSend
                /\ sends' = [sends EXCEPT ![t].done = TRUE, ![t].reached = TRUE,
                                          ![t].issued = messageContent]
                /\ UNCHANGED <<surfaced, composed>>
           ELSE IF send.attempt < retryAttempts
           THEN /\ send' = [send EXCEPT !.attempt = @ + 1,
                                         !.wait = retryDelay * 2 ^ send.attempt,
                                         !.last = IF outcome = "served" THEN res.status ELSE 0]
                /\ sends' = [sends EXCEPT ![t].reached = @ \/ served,
                                          ![t].issued = messageContent]
                /\ UNCHANGED <<queuedMessages, acked, removed, surfaced, composed>>
           ELSE LET failed == [i \in 1..Len(queuedMessages) |->
                                 IF queuedMessages[i].id = send.id
                                 THEN [queuedMessages[i] EXCEPT !.status = "failed",
                                                                !.retryCount = send.attempt]
                                 ELSE queuedMessages[i]]
                    requeue == send.from = "sendMessage" /\ ~online
                IN /\ queuedMessages' =
                        IF requeue
                        THEN Append(failed, [id |-> TempId(composed + 1), content |-> send.content,
                                             retryCount |-> 0, status |-> "queued"])
                        ELSE failed
                   /\ composed' = IF requeue THEN composed + 1 ELSE composed
                   /\ surfaced' = surfaced \cup {[tag |-> t, error |-> "send failed"]}
                        \cup (IF requeue THEN {[tag |-> t, error |-> "TypeError"]} ELSE {})
                   /\ send' = IdleSend
                   /\ sends' = [sends EXCEPT ![t].done = TRUE, ![t].reached = @ \/ served,
                                             ![t].queued = requeue,
                                             ![t].issued = messageContent]
                   /\ UNCHANGED <<acked, removed>>
  /\ UNCHANGED apiVars
  /\ UNCHANGED pollVars
  /\ UNCHANGED hookVars
  /\ UNCHANGED <<online, offlineQueue, cache, localMessages, lastData, flaps,
                 indexEnforced, reqVars, mergeVars>>

\* useSendMessage retryFailedMessages, as the component calls it: the next failed item
RetryFailedMessages ==
  /\ send.pc = "idle"
  /\ LET failedMessages == {i \in 1..Len(queuedMessages) : queuedMessages[i].status = "failed"}
     IN IF failedMessages = {}
        THEN UNCHANGED <<queuedMessages, send>>
        ELSE LET i == CHOOSE i \in failedMessages : \A j \in failedMessages : i <= j
             IN /\ queuedMessages' = [queuedMessages EXCEPT ![i].status = "sending"]
                /\ send' = [pc |-> "attempt", attempt |-> 0, id |-> queuedMessages[i].id,
                            content |-> queuedMessages[i].content, from |-> "retry",
                            wait |-> 0, last |-> 0]
  /\ UNCHANGED apiVars
  /\ UNCHANGED pollVars
  /\ UNCHANGED hookVars
  /\ UNCHANGED <<online, offlineQueue, cache, localMessages, lastData, composed, surfaced,
                 acked, removed, flaps, sends, storeVars, reqVars, mergeVars>>

\* useSendMessage clearQueue
ClearQueue ==
  /\ queuedMessages # <<>>
  /\ queuedMessages' = <<>>
  /\ removed' = removed \cup QueueIds(queuedMessages)
  /\ UNCHANGED apiVars
  /\ UNCHANGED pollVars
  /\ UNCHANGED hookVars
  /\ UNCHANGED <<online, offlineQueue, cache, localMessages, lastData, send, composed,
                 surfaced, acked, flaps, sends, storeVars, reqVars, mergeVars>>

\* useMessageSync queueOfflineMessage(message) called with a MessageSyncData value:
\* MessageCache.queueOfflineMessage
QueueOfflineMessage ==
  /\ composed < MaxCompose
  /\ LET data == formatMessageForSync(
                   [createOptimisticMessage(Body(0, 2, 0), TempId(composed + 1), clock)
                      EXCEPT !.shape = "sync"])
     IN /\ offlineQueue' = Append(offlineQueue, data)
        /\ cache' = addToCache(cache, data)
  /\ composed' = composed + 1
  /\ UNCHANGED apiVars
  /\ UNCHANGED pollVars
  /\ UNCHANGED hookVars
  /\ UNCHANGED <<online, queuedMessages, localMessages, lastData, send, surfaced, acked,
                 removed, flaps, sends, storeVars, reqVars, mergeVars>>

\* the browser's offline event
GoOffline ==
  /\ online /\ flaps < MaxFlaps
  /\ online' = FALSE
  /\ flaps' = flaps + 1
  /\ UNCHANGED apiVars
  /\ UNCHANGED pollVars
  /\ UNCHANGED hookVars
  /\ UNCHANGED <<queuedMessages, offlineQueue, cache, localMessages, lastData, send, composed,
                 surfaced, acked, removed, sends, storeVars, reqVars, mergeVars>>

\* the browser's online event: the MessageCache listener and useSendMessage handleOnline.
\* flushOfflineQueue copies the queue, clears it and logs the copy; the retryFailedMessages
\* that handleOnline schedules is the first render's, whose queuedMessages is empty
GoOnline ==
  /\ ~online
  /\ online' = TRUE
  /\ offlineQueue' = <<>>
  /\ removed' = removed \cup QueueIds(offlineQueue)
  /\ sends' = [t \in 1..Len(sends) |->
                 IF sends[t].done /\ sends[t].queued THEN [sends[t] EXCEPT !.reconnected = TRUE]
                 ELSE sends[t]]
  /\ UNCHANGED apiVars
  /\ UNCHANGED pollVars
  /\ UNCHANGED hookVars
  /\ UNCHANGED <<queuedMessages, cache, localMessages, lastData, send, composed,
                 surfaced, acked, flaps, storeVars, reqVars, mergeVars>>


\* useMessages sendMessage(content, imageUrl)
UseMessagesSend(shape, outcome) ==
  /\ Len(sends) < MaxCompose
  /\ LET content == Body(Len(sends) + 1, shape[1], shape[2])
         req == Request(OpenConversation, NoId, content)
         res == ServeCreateMessage(conversations, messages, clock, Me, req)
         served == outcome # "lost"
         ok == outcome = "served" /\ res.status = 201
     IN IF ~online
        THEN /\ outcome = "lost"
             /\ composed' = composed + 1
             /\ localMessages' =
                  <<createOptimisticMessage(content, TempId(composed + 1), clock)>> \o localMessages
             /\ sends' = Append(sends, SendRecord(content, TRUE, FALSE, "useMessages", TRUE, FALSE))
             /\ UNCHANGED <<conversations, messages, clock, cache, surfaced, acked>>
        ELSE /\ IF served
                THEN conversations' = res.convs /\ messages' = res.msgs /\ clock' = res.now
                ELSE UNCHANGED <<conversations, messages, clock>>
             /\ IF ok
                THEN /\ localMessages' = FirstById(Append(localMessages, FormatMessage(res.msgs, res.id)))
                     /\ cache' = saveToCache(localMessages')
                     /\ acked' = acked \cup {res.id}
                     /\ UNCHANGED surfaced
                ELSE /\ surfaced' = surfaced \cup {[tag |-> content.tag, error |-> "send failed"]}
                     /\ UNCHANGED <<localMessages, cache, acked>>
             /\ sends' = Append(sends,
                  [SendRecord(content, FALSE, FALSE, "useMessages", TRUE, served)
                     EXCEPT !.issued = content])
             /\ UNCHANGED composed
  /\ UNCHANGED apiVars
  /\ UNCHANGED pollVars
  /\ UNCHANGED hookVars
  /\ UNCHANGED <<online, queuedMessages, offlineQueue, lastData, send, removed, flaps,
                 indexEnforced, reqVars, mergeVars>>

\* POST create-message called with the documented body {conversationId?, recipientId, content}
ApiCreateMessage(senderId, conversationId, recipientId, shape) ==
  /\ Len(messages) < MaxMessages
  /\ LET res == ServeCreateMessage(conversations, messages, clock, senderId,
                                   Request(conversationId, recipientId, Body(0, shape[1], shape[2])))
     IN /\ res.status = 201
        /\ conversations' = res.convs /\ messages' = res.msgs /\ clock' = res.now
  /\ UNCHANGED apiVars
  /\ UNCHANGED pollVars
  /\ UNCHANGED hookVars
  /\ UNCHANGED <<indexEnforced, reqVars, mergeVars, clientVars>>

\* GET /api/conversations/[id] by a participant: the batch markMessagesAsSeen it runs
GetConversation(userId) ==
  /\ isParticipant(conversations[OpenConversation], userId)
  /\ clock < MaxClock
  /\ messages' = AfterMarkMessagesAsSeen(messages, OpenConversation, userId, clock)
  /\ messages' # messages
  /\ clock' = clock + 1
  /\ UNCHANGED apiVars
  /\ UNCHANGED pollVars
  /\ UNCHANGED hookVars
  /\ UNCHANGED <<conversations, indexEnforced, reqVars, mergeVars, clientVars>>

\* useMessages: one poll cycle. fetchMessages (the cache when offline or when the request
\* fails), usePolling's comparison with the last propagated value, and the merge effect
Poll(outcome) ==
  /\ outcome \in {"served", "lost"}
  /\ online \/ outcome = "lost"
  /\ LET newData == IF outcome = "served"
                    THEN ListMessages(messages, OpenConversation, initialLimit, 0)
                    ELSE syncFromCache(cache)
     IN IF lastData.set /\ newData = lastData.messages
        THEN UNCHANGED <<lastData, localMessages, cache>>
        ELSE /\ lastData' = [set |-> TRUE, messages |-> newData]
             /\ localMessages' = MergeEffect(localMessages, newData)
             /\ cache' = saveToCache(localMessages')
  /\ UNCHANGED apiVars
  /\ UNCHANGED pollVars
  /\ UNCHANGED hookVars
  /\ UNCHANGED <<online, queuedMessages, offlineQueue, send, composed, surfaced, acked,
                 removed, flaps, sends, storeVars, reqVars, mergeVars>>

\* bodies the documented API caller sends
ApiShapes == {<<2, 0>>}

Next ==
  \/ \E shape \in BodyShapes : SendMessage(shape)
  \/ \E outcome \in Outcomes : Attempt(outcome)
  \/ RetryFailedMessages
  \/ ClearQueue
  \/ QueueOfflineMessage
  \/ GoOffline
  \/ GoOnline
  \/ \E u \in UserIds, c \in {NoId, OpenConversation}, v \in UserIds \cup {NoId},
        shape \in ApiShapes : ApiCreateMessage(u, c, v, shape)

\* the send pipeline of one client against the create-message endpoint
Spec == InitClient /\ [][Next]_vars

NextSync ==
  \/ \E shape \in BodyShapes, outcome \in Outcomes : UseMessagesSend(shape, outcome)
  \/ \E u \in UserIds, c \in {NoId, OpenConversation}, v \in UserIds \cup {NoId},
        shape \in ApiShapes : ApiCreateMessage(u, c, v, shape)
  \/ \E u \in UserIds : GetConversation(u)
  \/ \E outcome \in Outcomes : Poll(outcome)
  \/ GoOffline
  \/ GoOnline

\* the poller and the merge of one client against the store
SpecSync == InitClient /\ [][NextSync]_vars

\* the attempt loop of sendMessageWithRetry, once started, runs until it returns or throws
SpecLive == Spec /\ WF_vars(\E outcome \in Outcomes : Attempt(outcome))

\* a body the endpoint's checks accept: not blank and at most 1000 characters
ValidBody(c) == TrimmedLength(c) > 0 /\ ContentLength(c) <= MaxContent

\* composition t was sent while online, with a valid body, and a request for it reached
\* the server
OnlineSendReached(t) ==
  /\ t <= Len(sends)
  /\ ~sends[t].offline
  /\ sends[t].reached
  /\ ValidBody(sends[t].content)

\* C1: an online send with a valid body to a conversation of the sender, whose request
\* reaches the endpoint, leads to exactly one stored message with status sent
C1_OnlineSendPersistsOnce ==
  \A t \in 1..MaxCompose :
    OnlineSendReached(t) ~>
      (Persisted(t) = 1 /\ \A m \in 1..Len(messages) :
                              messages[m].content.tag = t => messages[m].status = "sent")

\* composition t was made offline, put on the queue, and the client has reconnected since
QueuedAndReconnected(t) ==
  /\ t <= Len(sends)
  /\ sends[t].offline /\ sends[t].queued /\ sends[t].reconnected
  /\ online

\* the stored messages of the compositions, in store order
PersistedOrder ==
  LET idx == {m \in 1..Len(messages) : messages[m].content.tag > 0}
      kept == KeepIdx(messages, idx, 1)
  IN [i \in 1..Len(kept) |-> kept[i].content.tag]

\* C3: a message composed offline and queued is, once the client is back online, stored
\* exactly once, the stored messages follow submission order, and no error is surfaced
C3_OfflineQueueDrains ==
  \A t \in 1..MaxCompose :
    QueuedAndReconnected(t) ~>
      /\ Persisted(t) = 1
      /\ \A i, j \in 1..Len(PersistedOrder) : i < j => PersistedOrder[i] <= PersistedOrder[j]
      /\ \A e \in surfaced : e.tag # t

\* C4: an item has left a queue exactly when the server acknowledged its message: every
\* removed item was acknowledged, and no acknowledged item is still queued
C4_RemovedIffAcked ==
  /\ removed \subseteq acked
  /\ acked \cap (QueueIds(queuedMessages) \cup QueueIds(offlineQueue)) = {}

\* C9: after a poll cycle that propagated a list holding a message of this client with
\* status seen, the local list shows that message with status seen
C9_SeenReachesSender ==
  lastData.set =>
    \A i \in 1..Len(lastData.messages) :
      (lastData.messages[i].status = "seen" /\ messages[lastData.messages[i].id].senderId = Me) =>
        \E j \in 1..Len(localMessages) :
          /\ localMessages[j].id = lastData.messages[i].id
          /\ localMessages[j].status = "seen"


\* ================================================================ SpecApi
\* the endpoints called one request at a time, each handled as a whole

MaxConvs == 2
MaxApiClock == 4

\* recipientId strings a request body may carry: absent, the three users, an identity
\* that names no user, another spelling of user 1, and a string that is no ObjectId
RecipientInputs == {NoId, 1, 2, 3, UnknownUser, 1 + VariantOffset, Malformed}

\* (text, pad) of the bodies posted: short, absent, blank, over the limit
ApiBodyShapes == {<<2, 0>>, <<0, 0>>, <<0, 1>>, <<1001, 0>>}

\* conversations/route.ts POST handler: the response status, the conversation returned
\* and the collection it leaves
ServeCreateConversation(convs, userId, recipientId) ==
  LET same == [status |-> 400, conv |-> NoId, convs |-> convs]
  IN IF recipientId = NoId THEN same
     ELSE IF userId = recipientId THEN same
     ELSE IF CastThrows(recipientId) THEN [same EXCEPT !.status = 500]
     ELSE LET out == findOrCreateConversation(convs, userId, ObjectIdOf(recipientId))
          IN IF out.ok THEN [status |-> 201, conv |-> out.conv, convs |-> out.convs]
             ELSE [same EXCEPT !.status = 500]

\* messages/route.ts PATCH: message.recipientId._id.toString() is a string, and a string
\* has no method equals: the call throws a TypeError
StringEqualsThrows == TRUE

\* messages/route.ts PATCH handler: the response status, alreadySeen and the messages it leaves
ServeMarkSeen(convs, msgs, now, userId, messageId) ==
  LET out(st, already, after) == [status |-> st, alreadySeen |-> already, msgs |-> after]
  IN IF messageId \notin 1..Len(msgs) THEN out(404, FALSE, msgs)
     ELSE IF ~isParticipant(convs[msgs[messageId].conversationId], userId)
     THEN out(403, FALSE, msgs)
     ELSE IF StringEqualsThrows THEN out(500, FALSE, msgs)
     ELSE IF msgs[messageId].recipientId # userId THEN out(403, FALSE, msgs)
     ELSE IF msgs[messageId].status = "seen" THEN out(200, TRUE, msgs)
     ELSE out(200, FALSE,
              [msgs EXCEPT ![messageId] = AfterMarkAsSeen(@, msgs[messageId].status, now)])

\* Message.ts markMessagesAsSeen: result.modifiedCount
ModifiedCount(msgs, conversationId, userId) ==
  Cardinality({i \in 1..Len(msgs) :
                 /\ msgs[i].conversationId = conversationId
                 /\ msgs[i].recipientId = userId
                 /\ msgs[i].status # "seen"})

\* conversations/route.ts GET /api/conversations/[id]: the response status and the
\* messages it leaves
ServeGetConversation(convs, msgs, now, userId, conversationId) ==
  IF conversationId \notin 1..Len(convs) \/ ~isParticipant(convs[conversationId], userId)
  THEN [status |-> 403, msgs |-> msgs]
  ELSE [status |-> 200, msgs |-> AfterMarkMessagesAsSeen(msgs, conversationId, userId, now)]

InitApi ==
  /\ conversations = <<>> /\ messages = <<>> /\ clock = 1
  /\ indexEnforced \in BOOLEAN
  /\ InitReqs
  /\ InitMergeIdle
  /\ InitClientIdle

\* the last call served: who called, what it named, the response status and result
Called(op, caller, target, status, result) ==
  [op |-> op, caller |-> caller, target |-> target, status |-> status, result |-> result]

\* POST /api/conversations {recipientId} by userId
CreateConversation(userId, recipientId) ==
  /\ LET res == ServeCreateConversation(conversations, userId, recipientId)
     IN /\ Len(res.convs) <= MaxConvs
        /\ conversations' = res.convs
        /\ api' = Called("createConversation", userId, NoId, res.status, res.conv)
  /\ UNCHANGED <<messages, clock, indexEnforced, reqVars, mergeVars, clientVars, pollVars, hookVars>>

\* POST /api/messages {conversationId?, recipientId, content} by senderId
PostMessage(senderId, conversationId, recipientId, shape) ==
  /\ LET content == Body(0, shape[1], shape[2])
         res == ServeCreateMessage(conversations, messages, clock, senderId,
                                   Request(conversationId, recipientId, content))
     IN /\ Len(res.convs) <= MaxConvs /\ Len(res.msgs) <= MaxMessages
        /\ conversations' = res.convs /\ messages' = res.msgs /\ clock' = res.now
        /\ api' = Called("postMessage", senderId, NoId, res.status, res.id)
  /\ UNCHANGED <<indexEnforced, reqVars, mergeVars, clientVars, pollVars, hookVars>>

\* PATCH /api/messages/[id]/seen by userId
PatchSeen(userId, messageId) ==
  /\ clock < MaxApiClock
  /\ LET res == ServeMarkSeen(conversations, messages, clock, userId, messageId)
     IN /\ messages' = res.msgs
        /\ clock' = IF res.msgs # messages THEN clock + 1 ELSE clock
        /\ api' = Called("patchSeen", userId, messageId, res.status,
                         IF res.alreadySeen THEN 1 ELSE 0)
  /\ UNCHANGED <<conversations, indexEnforced, reqVars, mergeVars, clientVars, pollVars, hookVars>>

\* GET /api/conversations/[id] by userId
FetchConversation(userId, conversationId) ==
  /\ clock < MaxApiClock
  /\ LET res == ServeGetConversation(conversations, messages, clock, userId, conversationId)
     IN /\ messages' = res.msgs
        /\ clock' = IF res.msgs # messages THEN clock + 1 ELSE clock
        /\ api' = Called("getConversation", userId, conversationId, res.status, NoId)
  /\ UNCHANGED <<conversations, indexEnforced, reqVars, mergeVars, clientVars, pollVars, hookVars>>

\* db/index.ts markMessagesAsSeen(conversationId, userId): the count it returns
MarkSeenBatch(conversationId, userId) ==
  /\ clock < MaxApiClock
  /\ messages' = AfterMarkMessagesAsSeen(messages, conversationId, userId, clock)
  /\ clock' = IF messages' # messages THEN clock + 1 ELSE clock
  /\ api' = Called("markSeen", userId, conversationId, 200,
                   ModifiedCount(messages, conversationId, userId))
  /\ UNCHANGED <<conversations, indexEnforced, reqVars, mergeVars, clientVars, pollVars, hookVars>>

MaxApiMessages == 1

\* POST /api/messages with any body, while the store has room
PostAny(senderId, conversationId, recipientId, shape) ==
  /\ PostMessage(senderId, conversationId, recipientId, shape)
  /\ Len(messages') <= MaxApiMessages

\* the create endpoints under every combination of caller and request body
NextApi ==
  \/ \E u \in UserIds, v \in RecipientInputs : CreateConversation(u, v)
  \/ \E u \in UserIds, c \in 0..MaxConvs, v \in RecipientInputs, shape \in ApiBodyShapes :
        PostAny(u, c, v, shape)

SpecApi == InitApi /\ [][NextApi]_vars

\* C13: every stored conversation has exactly two participant references, and they are
\* two different users
C13_TwoDistinctParticipants ==
  \A c \in 1..Len(conversations) :
    /\ Len(conversations[c].participantIds) = 2
    /\ conversations[c].participantIds[1] # conversations[c].participantIds[2]

\* C14: the sender and the recipient of every stored message are participants of the
\* message's conversation, and a request naming a conversation that the sender or the
\* recipient is not part of is rejected and stores nothing
C14_MessageParties ==
  /\ \A m \in 1..Len(messages) :
       /\ isParticipant(conversations[messages[m].conversationId], messages[m].senderId)
       /\ isParticipant(conversations[messages[m].conversationId], messages[m].recipientId)
  /\ \A u \in UserIds, c \in 1..Len(conversations), v \in ExistingUsers :
       (~isParticipant(conversations[c], u) \/ ~isParticipant(conversations[c], v)) =>
         LET res == ServeCreateMessage(conversations, messages, clock, u,
                                       Request(c, v, Body(0, 2, 0)))
         IN res.status = 400 /\ res.msgs = messages /\ res.convs = conversations

\* a request the endpoint has to reject: content empty, blank or over 1000 characters, or
\* a recipient that is no user
MustReject(v, shape) ==
  \/ shape[1] = 0
  \/ shape[1] + shape[2] > MaxContent
  \/ (v # NoId /\ (CastThrows(v) \/ ObjectIdOf(v) \notin ExistingUsers))

\* C16: in every state of the store, a create-message request with empty, blank or
\* over-long content or with an unknown recipient is answered 400 and changes nothing
C16_RejectedBeforeMutation ==
  \A u \in UserIds, c \in 0..Len(conversations), v \in RecipientInputs, shape \in ApiBodyShapes :
    MustReject(v, shape) =>
      LET res == ServeCreateMessage(conversations, messages, clock, u,
                                    Request(c, v, Body(0, shape[1], shape[2])))
      IN res.status = 400 /\ res.msgs = messages /\ res.convs = conversations

\* POST /api/messages with a body the endpoint accepts
PostAccepted(senderId, conversationId, recipientId, shape) ==
  /\ PostMessage(senderId, conversationId, recipientId, shape)
  /\ api'.status = 201

\* accepted messages between the three users, and the calls that mark them seen
NextSeen ==
  \/ \E u \in UserIds, c \in 0..MaxConvs, v \in ExistingUsers, shape \in ApiShapes :
        PostAccepted(u, c, v, shape)
  \/ \E u \in UserIds, m \in 1..MaxMessages : PatchSeen(u, m)
  \/ \E u \in UserIds, c \in 1..MaxConvs : FetchConversation(u, c)
  \/ \E u \in ExistingUsers, c \in 1..MaxConvs : MarkSeenBatch(c, u)

SpecSeen == InitApi /\ [][NextSeen]_vars

\* C17: after the recipient of a stored message called mark-message-seen on it, the call
\* was answered 200 and the message is seen with a seen timestamp; a call that found it
\* seen already says so
C17_RecipientMarksSeen ==
  (/\ api.op = "patchSeen"
   /\ api.target \in 1..Len(messages)
   /\ messages[api.target].recipientId = api.caller) =>
     /\ api.status = 200
     /\ messages[api.target].status = "seen"
     /\ messages[api.target].seenAt # NoId

\* C18: a mark-message-seen call by a user who is not the message's recipient is answered
\* 403, and neither it nor a conversation fetch changes a message addressed to someone else
C18_OnlyRecipientMarksSeen ==
  [][api'.op \in {"patchSeen", "getConversation"} =>
       /\ Len(messages') = Len(messages)
       /\ \A m \in 1..Len(messages) :
            messages[m].recipientId # api'.caller => messages'[m] = messages[m]
       /\ (/\ api'.op = "patchSeen"
           /\ api'.target \in 1..Len(messages)
           /\ messages[api'.target].recipientId # api'.caller) => api'.status = 403]_vars

\* the messages markMessagesAsSeen(c, u) has to change
DueFor(c, u) ==
  {m \in 1..Len(messages) :
     /\ messages[m].conversationId = c
     /\ messages[m].recipientId = u
     /\ messages[m].status # "seen"}

\* C19: markMessagesAsSeen(c, u) turns exactly the messages of c addressed to u that are
\* not seen into seen with a timestamp, leaves every other message as it is, returns how
\* many it changed, and leaves nothing for a second call to change
C19_BatchMarkSeen ==
  [][api'.op = "markSeen" =>
       /\ Len(messages') = Len(messages)
       /\ \A m \in 1..Len(messages) :
            IF m \in DueFor(api'.target, api'.caller)
            THEN /\ messages'[m].status = "seen"
                 /\ messages'[m].seenAt # NoId
                 /\ [messages'[m] EXCEPT !.status = "sent", !.seenAt = NoId] =
                    [messages[m] EXCEPT !.status = "sent", !.seenAt = NoId]
            ELSE messages'[m] = messages[m]
       /\ api'.result = Cardinality(DueFor(api'.target, api'.caller))
       /\ ModifiedCount(messages', api'.target, api'.caller) = 0]_vars

\* a batch call changed one message, stamping it with the time of the call, and left
\* alone an unseen message that was not due
C19_Witness ==
  /\ api.op = "markSeen" /\ api.result = 1
  /\ \E m \in 1..Len(messages) : messages[m].status # "seen"
  /\ \E m \in 1..Len(messages) : messages[m].status = "seen" /\ messages[m].seenAt = clock - 1


\* =============================================================== SpecList
\* GET list-messages on conversations of different sizes, under every query string

MaxStored == 101

\* the page-size cap of the route
PageCap == 100

\* how many messages the conversation holds
StoredCounts == {0, 3, MaxStored}

\* a query parameter: absent, a text that is no number, or the decimal text of n
QueryParam(kind, n) == [kind |-> kind, n |-> n]
LimitParams ==
  {QueryParam("absent", 0), QueryParam("text", 0)} \cup
  {QueryParam("int", n) : n \in {0 - 101, 0 - 2, 0, 2, 50, 100, 101, 500}}
SkipParams ==
  {QueryParam("absent", 0), QueryParam("text", 0)} \cup
  {QueryParam("int", n) : n \in {0 - 3, 0, 1, 200}}

\* a JavaScript number: NaN, or the integer n
Num(n) == [nan |-> FALSE, n |-> n]
NaN == [nan |-> TRUE, n |-> 0]

\* parseInt(searchParams.get(name) || fallback)
parseIntOr(param, fallback) ==
  IF param.kind = "absent" THEN Num(fallback)
  ELSE IF param.kind = "text" THEN NaN
  ELSE Num(param.n)

\* Math.min(x, cap) and Math.max(x, floor): NaN when x is NaN
MathMin(x, cap) == IF x.nan THEN NaN ELSE IF x.n < cap THEN x ELSE Num(cap)
MathMax(x, floor) == IF x.nan THEN NaN ELSE IF x.n > floor THEN x ELSE Num(floor)

\* what the database does with a NaN limit or skip: fails the query, or reads it as 0
NaNOutcomes == {"rejected", "zero"}

\* messages/conversation/[conversationId]/route.ts GET handler: the response status, the
\* limit and skip it reports, and the page of message identities
ServeListMessages(convs, msgs, userId, conversationId, limitParam, skipParam, nanOutcome) ==
  LET limit == MathMin(parseIntOr(limitParam, 50), PageCap)
      skip == MathMax(parseIntOr(skipParam, 0), 0)
      out(st, page) == [status |-> st, limit |-> limit, skip |-> skip, page |-> page]
  IN IF conversationId \notin 1..Len(convs) \/ ~isParticipant(convs[conversationId], userId)
     THEN out(403, <<>>)
     ELSE IF (limit.nan \/ skip.nan) /\ nanOutcome = "rejected" THEN out(500, <<>>)
     ELSE out(200, getConversationMessages(msgs, conversationId, limit.n, skip.n))

InitList ==
  /\ \E total \in StoredCounts :
       /\ messages = [i \in 1..total |->
                        NewMessage(1, 1 + (i % 2), 2 - (i % 2), Body(0, 2, 0), (i + 1) \div 2)]
       /\ conversations = <<[NewConversation(SortedIds(1, 2)) EXCEPT
                               !.lastMessage = total, !.lastMessageTime = (total + 1) \div 2]>>
       /\ clock = 1 + (total + 1) \div 2
  /\ indexEnforced = FALSE
  /\ InitReqs
  /\ InitMergeIdle
  /\ InitClientIdle

\* GET /api/messages/conversation/[conversationId]?limit=..&skip=.. by userId
ListCall(userId, conversationId, limitParam, skipParam, nanOutcome) ==
  /\ LET res == ServeListMessages(conversations, messages, userId, conversationId,
                                  limitParam, skipParam, nanOutcome)
     IN api' = [op |-> "list", caller |-> userId, target |-> conversationId,
                status |-> res.status, result |-> res.page,
                limit |-> limitParam, skip |-> res.skip]
  /\ UNCHANGED <<storeVars, reqVars, mergeVars, clientVars, pollVars, hookVars>>

NextList ==
  \E u \in UserIds, l \in LimitParams, k \in SkipParams, o \in NaNOutcomes :
    ListCall(u, 1, l, k, o)

SpecList == InitList /\ [][NextList]_vars

\* C20: whatever limit and skip the client sends, the page holds at most 100 messages,
\* newest first by creation time, and starts at a non-negative offset
C20_PageCapped ==
  api.op = "list" =>
    /\ Len(api.result) <= PageCap
    /\ \A i, j \in 1..Len(api.result) :
         i < j => api.result[i].createdAt >= api.result[j].createdAt
    /\ api.status = 200 => (~api.skip.nan => api.skip.n >= 0)

\* =============================================================== SpecPoll
\* one usePolling subscriber: its timer, its fetches in flight and what it hands on

MaxCycles == 3
MaxSource == 2

\* JSON.stringify of a fetched value: "null" for null, else the text of the list
Stringify(v) == IF v.kind = "null" THEN <<"null">> ELSE <<"messages", v.n>>

\* a comparison that finds every two values different
NeverSame(a, b) == FALSE

\* poll: JSON.stringify(newData) !== JSON.stringify(lastDataRef.current), negated
SameJson(a, b) == Stringify(a) = Stringify(b)

\* React drops a state update made after the component has unmounted
Live(p) == p.phase = "mounted"

\* poll() up to its await: the state update and the fetch it leaves in flight
StartCycle(p, trigger) ==
  LET f == [cycle |-> p.cycles + 1, value |-> Fetched(p.source), trigger |-> trigger]
  IN [p EXCEPT !.isPolling = IF Live(p) THEN TRUE ELSE @,
               !.error = IF Live(p) THEN FALSE ELSE @,
               !.inflight = @ \cup {f},
               !.cycles = @ + 1,
               !.last = [event |-> "started", cycle |-> f.cycle, value |-> f.value]]

\* poll() after its await, the fetch having resolved with f.value
Resolved(p, f) ==
  LET rest == [p EXCEPT !.inflight = @ \ {f}, !.now = @ + 1]
  IN IF ~SameJson(f.value, p.lastDataRef)
     THEN [rest EXCEPT !.data = IF Live(p) THEN f.value ELSE @,
                       !.lastDataRef = f.value,
                       !.dataVersion = @ + 1,
                       !.isPolling = IF Live(p) THEN FALSE ELSE @,
                       !.error = IF Live(p) THEN FALSE ELSE @,
                       !.lastUpdate = IF Live(p) THEN p.now ELSE @,
                       !.applied = f.cycle,
                       !.last = [event |-> "ok", cycle |-> f.cycle, value |-> f.value]]
     ELSE [rest EXCEPT !.isPolling = IF Live(p) THEN FALSE ELSE @,
                       !.error = IF Live(p) THEN FALSE ELSE @,
                       !.last = [event |-> "same", cycle |-> f.cycle, value |-> f.value]]

\* a catch that records nothing and stops the timer
Uncaught(p, f) ==
  [p EXCEPT !.inflight = @ \ {f}, !.now = @ + 1, !.timer = FALSE,
            !.last = [event |-> "failed", cycle |-> f.cycle, value |-> f.value]]

\* poll()'s catch block, the fetch having rejected
Catch(p, f) ==
  [p EXCEPT !.inflight = @ \ {f}, !.now = @ + 1,
            !.isPolling = IF Live(p) THEN FALSE ELSE @,
            !.error = IF Live(p) THEN TRUE ELSE @,
            !.onErrorCalls = @ + 1,
            !.last = [event |-> "failed", cycle |-> f.cycle, value |-> f.value]]

InitPoll ==
  /\ conversations = <<>> /\ messages = <<>> /\ clock = 1 /\ indexEnforced = FALSE
  /\ InitReqs
  /\ InitMergeIdle
  /\ InitClientIdle

PollerStep(p) ==
  /\ poller' = p
  /\ UNCHANGED <<storeVars, reqVars, mergeVars, clientVars, apiVars, hookVars>>

\* the first effect run after mounting: nothing when disabled, else the initial poll and
\* setInterval
Mount(enabled) ==
  /\ poller.phase = "new"
  /\ LET p == [poller EXCEPT !.phase = "mounted", !.enabled = enabled]
     IN PollerStep(IF enabled THEN [StartCycle(p, "initial") EXCEPT !.timer = TRUE] ELSE p)

\* the interval timer fires: poll()
Tick ==
  /\ poller.timer /\ poller.cycles < MaxCycles
  /\ PollerStep(StartCycle(poller, "tick"))

\* refresh()
Refresh ==
  /\ Live(poller) /\ poller.enabled /\ poller.cycles < MaxCycles
  /\ PollerStep(StartCycle(poller, "refresh"))

\* enabled turns false: the effect's cleanup, then the effect returns after cleanup()
Disable ==
  /\ Live(poller) /\ poller.enabled
  /\ PollerStep([poller EXCEPT !.enabled = FALSE, !.timer = FALSE])

\* enabled turns true: the effect runs its initial poll and sets the interval
Enable ==
  /\ Live(poller) /\ ~poller.enabled /\ poller.cycles < MaxCycles
  /\ PollerStep([StartCycle([poller EXCEPT !.enabled = TRUE], "initial") EXCEPT !.timer = TRUE])

\* the view is torn down: the effects' cleanup
Unmount ==
  /\ Live(poller)
  /\ PollerStep([poller EXCEPT !.phase = "unmounted", !.timer = FALSE])

\* a message arrives at the source the fetch function reads
SourceGrows ==
  /\ poller.source < MaxSource
  /\ PollerStep([poller EXCEPT !.source = @ + 1])

\* the fetch of one cycle resolves
FetchResolves(f) ==
  /\ f \in poller.inflight
  /\ PollerStep(Resolved(poller, f))

\* the fetch of one cycle rejects
FetchRejects(f) ==
  /\ f \in poller.inflight
  /\ PollerStep(Catch(poller, f))

NextPoll ==
  \/ \E enabled \in BOOLEAN : Mount(enabled)
  \/ Tick
  \/ Refresh
  \/ Disable
  \/ Enable
  \/ Unmount
  \/ SourceGrows
  \/ \E f \in poller.inflight : FetchResolves(f)
  \/ \E f \in poller.inflight : FetchRejects(f)

SpecPoll == InitPoll /\ [][NextPoll]_vars

\* C21: at most one fetch is in flight at any time, and the cycle whose result was applied
\* last never falls behind one applied before it
C21_SingleFlight ==
  /\ [](Cardinality(poller.inflight) <= 1)
  /\ [][poller'.applied >= poller.applied]_vars

\* the applied cycle never falls behind
AppliedInOrder == [][poller'.applied >= poller.applied]_vars

\* the timer of a disabled or torn-down poller is cancelled and starts no cycle
TimerCancelled ==
  /\ [](poller.phase # "new" /\ ~(poller.phase = "mounted" /\ poller.enabled) => ~poller.timer)
  /\ [][(poller.phase # "new" /\ ~(poller.phase = "mounted" /\ poller.enabled)
          /\ ~(poller'.phase = "mounted" /\ poller'.enabled)) => poller'.cycles = poller.cycles]_vars

\* the poller is disabled or its view is torn down
Off(p) == p.phase = "unmounted" \/ (p.phase = "mounted" /\ ~p.enabled)

\* C22: while a poller is disabled or torn down its timer is cancelled, no cycle starts,
\* and a fetch that resolves changes neither data, lastUpdate nor error and calls no onError
C22_CancelledAndDiscarded ==
  /\ [](Off(poller) => ~poller.timer)
  /\ [][(Off(poller) /\ Off(poller')) =>
          /\ poller'.cycles = poller.cycles
          /\ poller'.data = poller.data
          /\ poller'.lastUpdate = poller.lastUpdate
          /\ poller'.error = poller.error
          /\ poller'.onErrorCalls = poller.onErrorCalls]_vars

\* this step is the resolution of a fetch, with one of the given outcomes
Finishes(events) == poller'.inflight # poller.inflight /\ poller'.last.event \in events

\* C23: for a mounted poller, a failed fetch sets error, calls onError once and leaves the
\* timer running; a successful fetch clears error and leaves its value as data
C23_FailureKeepsSchedule ==
  /\ []((Live(poller) /\ poller.enabled) => poller.timer)
  /\ [][Live(poller) =>
          /\ Finishes({"failed"}) =>
               /\ poller'.error
               /\ poller'.onErrorCalls = poller.onErrorCalls + 1
               /\ poller'.timer = poller.timer
               /\ poller'.cycles = poller.cycles
          /\ Finishes({"ok", "same"}) =>
               /\ ~poller'.error
               /\ poller'.data = poller'.last.value]_vars

\* a failure was reported, a later tick started a cycle and a successful cycle delivered
C23_Witness ==
  /\ Live(poller) /\ poller.timer
  /\ poller.onErrorCalls > 0
  /\ poller.last.event = "ok" /\ poller.last.cycle > 1
  /\ ~poller.error /\ poller.data = poller.last.value

\* C24: for a mounted poller, data and lastUpdate change only when a fetch resolves with a
\* value that differs from the one handed on last, which then becomes data; a fetch that
\* resolves with an equal value changes neither
C24_PropagatesOnlyDifferences ==
  [][Live(poller) =>
       /\ (poller'.data # poller.data \/ poller'.lastUpdate # poller.lastUpdate) =>
            /\ Finishes({"ok"})
            /\ poller'.last.value # poller.data
            /\ poller'.data = poller'.last.value
       /\ (Finishes({"ok", "same"}) /\ poller'.last.value = poller.data) =>
            /\ poller'.data = poller.data
            /\ poller'.lastUpdate = poller.lastUpdate
       /\ (Finishes({"ok", "same"}) /\ poller'.last.value # poller.data) =>
            /\ poller'.data = poller'.last.value
            /\ poller'.lastUpdate # poller.lastUpdate]_vars

\* a message was handed on, and a later cycle returning the same list changed nothing
C24_Witness ==
  /\ Live(poller)
  /\ poller.last.event = "same" /\ poller.last.value = Fetched(1)
  /\ poller.data = Fetched(1) /\ poller.dataVersion = 2

\* ====================================== Send Pipeline: retries, queue, reconnect
\* properties of Spec, SpecLive and SpecSync

\* this step is one pass of the attempt loop of sendMessageWithRetry
AttemptStep == send.pc = "attempt" /\ send' # send

\* this step is the last pass of a send that was not acknowledged
ExhaustedStep == AttemptStep /\ send'.pc = "idle" /\ send.id \notin acked'

\* C25: a send whose create calls all fail ends; it makes at most 3 calls, sleeps
\* retryDelay * 2^attempt before the next one, and reports the failure when it gives up
C25_RetryBounded ==
  /\ (send.pc = "attempt") ~> (send.pc = "idle")
  /\ [][AttemptStep =>
          /\ send.attempt + 1 <= retryAttempts
          /\ send'.pc = "attempt" => send'.wait = retryDelay * 2 ^ send.attempt
          /\ ExhaustedStep =>
               [tag |-> send.content.tag, error |-> "send failed"] \in surfaced']_vars

\* C36: every create call issued for a send carries the body the user composed, and a
\* message persisted for the send holds the composed content at the composed length
C36_BodyUnchanged ==
  /\ \A t \in 1..Len(sends) : sends[t].issued \in {Body(0, 0, 0), sends[t].content}
  /\ \A m \in 1..Len(messages) : \A t \in 1..Len(sends) :
       messages[m].content.tag = t =>
         /\ messages[m].content = sends[t].content
         /\ ContentLength(messages[m].content) = ContentLength(sends[t].content)

\* the first call of a send carries the composed body
FirstCallAsComposed ==
  [][(AttemptStep /\ send.attempt = 0) =>
       sends'[send.content.tag].issued = sends[send.content.tag].content]_vars

\* C26: when an online send gives up, queuedMessages holds an item in state failed that
\* carries the body of that send
C26_FailedItemKept ==
  [][(ExhaustedStep /\ send.from = "sendMessage") =>
       \E i \in 1..Len(queuedMessages') :
         /\ queuedMessages'[i].status = "failed"
         /\ queuedMessages'[i].content = send.content]_vars

\* response statuses that say the request itself was refused
Refusals == {400, 401, 403}

\* C27: a send the server refused with a validation or authorization status is not tried
\* again: no further pass of the attempt loop follows such a response
C27_RefusalNotRetried ==
  [][(AttemptStep /\ send'.pc = "attempt") => send'.last \notin Refusals]_vars

\* this step is a send composed while offline
OfflineSendStep == ~online /\ Len(sends') = Len(sends) + 1

\* the placeholders (temporary identities) the client shows or caches
Placeholders(list) == {i \in 1..Len(list) : list[i].id < 0}

\* C28: a send made while offline calls no endpoint, inserts exactly one optimistic entry,
\* appends exactly one item in state queued with retry count 0 and the body to the
\* outbound queue, and raises no error
C28_OfflineSendQueued ==
  [][OfflineSendStep =>
       LET t == Len(sends')
           body == sends'[t].content
       IN /\ send' = send /\ messages' = messages
          /\ Cardinality(Placeholders(localMessages')) + Cardinality(Placeholders(cache'))
               = Cardinality(Placeholders(localMessages)) + Cardinality(Placeholders(cache)) + 1
          /\ Len(queuedMessages') = Len(queuedMessages) + 1
          /\ Last(queuedMessages').status = "queued"
          /\ Last(queuedMessages').retryCount = 0
          /\ Last(queuedMessages').content = body
          /\ \A e \in surfaced' : e.tag # t]_vars

\* the items due at a reconnect: the offline queue, then the failed outbound items
DueAtReconnect ==
  QueueIds(offlineQueue) \cup
  {queuedMessages[i].id : i \in {j \in 1..Len(queuedMessages) : queuedMessages[j].status = "failed"}}

\* C29: at a reconnect with no send running, the retry logic is started for an item of the
\* offline queue or a failed item whenever there is one
C29_ReconnectResends ==
  [][(~online /\ online' /\ send.pc = "idle" /\ DueAtReconnect # {}) =>
       (send'.pc = "attempt" /\ send'.id \in DueAtReconnect)]_vars

\* the sends of this client that the server confirmed to it
Confirmed(list) == {list[i].tag : i \in {j \in 1..Len(list) : list[j].id > 0 /\ list[j].tag > 0}}

\* the sends of this client shown as placeholders
Pending(list) == {list[i].tag : i \in {j \in 1..Len(list) : list[j].id < 0 /\ list[j].tag > 0}}

\* C30: neither the local timeline nor the cache holds a placeholder of a send next to the
\* confirmed message of that send
C30_PlaceholderReplaced ==
  /\ Pending(localMessages) \cap Confirmed(localMessages) = {}
  /\ Pending(cache) \cap Confirmed(cache) = {}

\* a send that was shown as a placeholder has been confirmed
PlaceholderConfirmed ==
  \E t \in 1..Len(sends) :
    /\ sends[t].offline
    /\ Persisted(t) > 0

\* =============================================================== SpecFeed
\* one conversation watched by two clients of the same user: useMessages (polling) and
\* useRealtimeMessages (Realtime Channel events)

MaxFeedMessages == 2
MaxDeliveries == 2
MaxFeedClock == 4

\* the row a postgres_changes event carries (payload.new), as handleNewMessage formats it
PushFormat(msgs, id) == FormatMessage(msgs, id)

\* useRealtimeMessages handleNewMessage: append, keep the first entry per identity
AfterPush(list, formattedMessage) == FirstById(Append(list, formattedMessage))

\* useMessages merge effect: onNewMessage is called for the messages of newMessages whose
\* identity is not in prevMessages, and only when prevMessages is not empty
NotifyOnMerge(fired, prevMessages, newMessages) ==
  [id \in DOMAIN fired |->
     IF /\ Len(prevMessages) > 0
        /\ id \in IdsOf(newMessages)
        /\ id \notin IdsOf(prevMessages)
     THEN fired[id] + 1 ELSE fired[id]]

InitFeed ==
  /\ conversations = <<NewConversation(SortedIds(Me, Peer))>>
  /\ messages = <<>> /\ clock = 1 /\ indexEnforced = TRUE
  /\ reqs = [r \in Slots |-> IdleReq] /\ calls = 0 /\ gocResults = {}
  /\ api = NoCall /\ poller = IdlePoller
  /\ fb = NoFallback /\ convView = IdleConvView /\ paging = FirstPage
  /\ \E enableFallback \in BOOLEAN :
       feed = [IdleFeed EXCEPT !.poll.fired = [id \in 1..MaxFeedMessages |-> 0],
                               !.push.fired = [id \in 1..MaxFeedMessages |-> 0],
                               !.enableFallback = enableFallback]
  /\ InitMergeIdle
  /\ InitClientIdle

FeedFrame == UNCHANGED <<mergeVars, reqVars, clientVars, apiVars, pollVars, convView, paging>>

\* the peer's message is stored: POST /api/messages by Peer
FeedCreate ==
  /\ Len(messages) < MaxFeedMessages
  /\ LET res == ServeCreateMessage(conversations, messages, clock, Peer,
                                   Request(OpenConversation, Me, Body(0, 2, 0)))
     IN /\ res.status = 201
        /\ conversations' = res.convs /\ messages' = res.msgs /\ clock' = res.now
  /\ UNCHANGED <<indexEnforced, feed, fb>>
  /\ FeedFrame

\* the user's messages are marked seen: markMessagesAsSeen for Me
FeedSeen ==
  /\ clock < MaxFeedClock
  /\ messages' = AfterMarkMessagesAsSeen(messages, OpenConversation, Me, clock)
  /\ messages' # messages
  /\ clock' = clock + 1
  /\ UNCHANGED <<conversations, indexEnforced, feed, fb>>
  /\ FeedFrame

\* the channel delivers the INSERT or UPDATE event of message m: handleNewMessage
PushEvent(m) ==
  /\ feed.channel = "subscribed"
  /\ m \in 1..Len(messages)
  /\ feed.push.fired[m] < MaxDeliveries
  /\ feed' = [feed EXCEPT !.push.list = AfterPush(@, PushFormat(messages, m)),
                          !.push.fired[m] = @ + 1,
                          !.delivered = @ \cup {<<m, messages[m].status>>}]
  /\ UNCHANGED <<storeVars, fb>>
  /\ FeedFrame

\* one poll cycle of useMessages that the server answers: usePolling's comparison and the
\* merge effect with its notifications
FeedPoll ==
  /\ LET newData == ListMessages(messages, OpenConversation, initialLimit, 0)
     IN /\ newData # feed.poll.synced
        /\ feed' = [feed EXCEPT !.poll.synced = newData,
                                !.poll.list = MergeEffect(@, newData),
                                !.poll.fired = NotifyOnMerge(@, feed.poll.list, newData)]
  /\ UNCHANGED <<storeVars, fb>>
  /\ FeedFrame

\* the channel reports CHANNEL_ERROR: handleRealtimeError
ChannelError ==
  /\ feed.channel = "subscribed"
  /\ feed' = [feed EXCEPT !.channel = "error"]
  /\ fb' = IF feed.enableFallback /\ ~fb.made THEN [NoFallback EXCEPT !.made = TRUE] ELSE fb
  /\ UNCHANGED storeVars
  /\ FeedFrame

\* the socket closes or the client goes offline: the subscribe callback handles
\* SUBSCRIBED and CHANNEL_ERROR only
ChannelCloses ==
  /\ feed.channel = "subscribed"
  /\ feed' = [feed EXCEPT !.channel = "closed"]
  /\ UNCHANGED <<storeVars, fb>>
  /\ FeedFrame

NextFeed ==
  \/ FeedCreate
  \/ FeedSeen
  \/ \E m \in 1..MaxFeedMessages : PushEvent(m)
  \/ FeedPoll
  \/ ChannelError
  \/ ChannelCloses

SpecFeed == InitFeed /\ [][NextFeed]_vars

\* C31: every message identity a client holds has triggered that client's onNewMessage
\* exactly once
C31_NotifiedOnce ==
  \A id \in 1..MaxFeedMessages :
    /\ id \in IdsOf(feed.poll.list) => feed.poll.fired[id] = 1
    /\ id \in IdsOf(feed.push.list) => feed.push.fired[id] = 1

\* both clients have received the current server state
CaughtUp ==
  /\ feed.poll.synced = ListMessages(messages, OpenConversation, initialLimit, 0)
  /\ \A m \in 1..Len(messages) : <<m, messages[m].status>> \in feed.delivered

\* C32: once both clients have received the current server state, they hold the same list
C32_PathsConverge == CaughtUp => feed.poll.list = feed.push.list

\* the RealtimeFallback polling loop is running
PollingActive == fb.made /\ fb.loop \in {"timer", "fetching"}

\* C33: after the channel failed with fallback enabled, polling is active
C33_DegradedPolls ==
  (feed.channel \in {"error", "closed"} /\ feed.enableFallback) => PollingActive

\* ============================================================ SpecFallback
\* one RealtimeFallback object and the polling loop of one subscription. loop is "none"
\* before startPolling, "timer" while a setTimeout(poll) is pending, "fetching" while
\* pollCallback runs, "ended" after poll returned without a new timer; met says that the
\* loop ran into an offline period

MaxPollCalls == 3

FallbackFrame ==
  UNCHANGED <<storeVars, mergeVars, reqVars, apiVars, pollVars, feed, convView, paging,
              queuedMessages, offlineQueue, cache, localMessages, lastData, send, composed,
              surfaced, acked, removed, sends>>

\* startPolling: setTimeout(poll, 1000)
startPolling(f) == [f EXCEPT !.loop = "timer"]

\* unsubscribeAll: every subscription is unsubscribed and the map cleared
unsubscribeAll(f) == [f EXCEPT !.subscribed = FALSE]

\* resubscribeAll: logs only
resubscribeAll(f) == f

\* new RealtimeFallback(): a client when the credentials are configured, and
\* navigator.onLine
FbConstruct(hasClient) ==
  /\ ~fb.made
  /\ fb' = [NoFallback EXCEPT !.made = TRUE, !.client = hasClient, !.isOnline = online]
  /\ UNCHANGED <<online, flaps>>
  /\ FallbackFrame

\* subscribeToMessages(conversationId, onMessage, onFallback, pollCallback)
FbSubscribe ==
  /\ fb.made /\ fb.loop = "none" /\ ~fb.subscribed
  /\ fb' = IF fb.client /\ fb.isOnline THEN [fb EXCEPT !.subscribed = TRUE]
           ELSE startPolling(fb)
  /\ UNCHANGED <<online, flaps>>
  /\ FallbackFrame

\* the WebSocket subscription reports an error: the callback passed to subscribeToMessages
FbSocketError ==
  /\ fb.subscribed /\ fb.loop = "none"
  /\ fb' = startPolling(fb)
  /\ UNCHANGED <<online, flaps>>
  /\ FallbackFrame

\* a pending timer fires: poll() up to its await
FbTimerFires ==
  /\ fb.loop = "timer" /\ fb.calls < MaxPollCalls
  /\ fb' = IF ~fb.isOnline THEN [fb EXCEPT !.loop = "ended", !.met = TRUE]
           ELSE [fb EXCEPT !.loop = "fetching", !.calls = @ + 1]
  /\ UNCHANGED <<online, flaps>>
  /\ FallbackFrame

\* pollCallback settles: the messages are handed on or the error logged, then
\* setTimeout(poll, 3000)
FbPollSettles ==
  /\ fb.loop = "fetching"
  /\ fb' = [fb EXCEPT !.loop = "timer"]
  /\ UNCHANGED <<online, flaps>>
  /\ FallbackFrame

\* the browser's offline event
FbOffline ==
  /\ online /\ flaps < MaxFlaps
  /\ online' = FALSE /\ flaps' = flaps + 1
  /\ fb' = IF fb.made THEN unsubscribeAll([fb EXCEPT !.isOnline = FALSE]) ELSE fb
  /\ FallbackFrame

\* the browser's online event
FbOnline ==
  /\ ~online
  /\ online' = TRUE
  /\ fb' = IF fb.made THEN resubscribeAll([fb EXCEPT !.isOnline = TRUE]) ELSE fb
  /\ UNCHANGED flaps
  /\ FallbackFrame

\* destroy()
FbDestroy ==
  /\ fb.made /\ ~fb.destroyed
  /\ fb' = [unsubscribeAll(fb) EXCEPT !.destroyed = TRUE]
  /\ UNCHANGED <<online, flaps>>
  /\ FallbackFrame

InitFallback ==
  /\ conversations = <<>> /\ messages = <<>> /\ clock = 1 /\ indexEnforced = FALSE
  /\ InitReqs
  /\ InitMergeIdle
  /\ InitClientIdle

NextFallback ==
  \/ \E hasClient \in BOOLEAN : FbConstruct(hasClient)
  \/ FbSubscribe
  \/ FbSocketError
  \/ FbTimerFires
  \/ FbPollSettles
  \/ FbOffline
  \/ FbOnline
  \/ FbDestroy

SpecFallback == InitFallback /\ [][NextFallback]_vars

\* C40: after destroy() no pollCallback is invoked and no timer is scheduled, and a loop
\* that met an offline period is polling again whenever the client is online
C40_CancellableResumable ==
  /\ [][fb.destroyed =>
          /\ fb'.calls = fb.calls
          /\ fb'.loop = "timer" => fb.loop = "timer"]_vars
  /\ []((fb.made /\ ~fb.destroyed /\ fb.met /\ fb.isOnline) => fb.loop \in {"timer", "fetching"})

\* the first half of C40 alone
NoPollAfterDestroy == [][fb.destroyed => fb'.calls = fb.calls]_vars

\* the second half of C40 alone
ResumesOnline ==
  (fb.made /\ ~fb.destroyed /\ fb.met /\ fb.isOnline) => fb.loop \in {"timer", "fetching"}

\* ============================================================== SpecConvs
\* useConversations of the client signed in as Me: the conversation list it displays

MaxShown == 2
MaxConvPolls == 4

\* GET /api/conversations as the client reads it: the identities of the user's
\* conversations, newest first
ListConversations(convs, userId) ==
  LET Mine(c) == isParticipant(convs[c.id], userId)
      Newer(a, b) == a.id > b.id
      own == SelectSeq([c \in 1..Len(convs) |-> [id |-> c]], Mine)
      sorted == SortSeq(own, Newer)
  IN [k \in 1..Len(sorted) |-> sorted[k].id]

\* useConversations fetchConversations: [] when offline or when the request fails
fetchConversations(convs, isOnline, outcome) ==
  IF ~isOnline THEN [value |-> <<>>, how |-> "offline"]
  ELSE IF outcome = "lost" THEN [value |-> <<>>, how |-> "failed"]
  ELSE [value |-> ListConversations(convs, Me), how |-> "served"]

\* useConversations merge effect: onNewConversation for every conversation of data that is
\* not in the displayed list
NotifyNewConversations(fired, prevConversations, data) ==
  [c \in DOMAIN fired |->
     IF c \in Range(data) /\ c \notin Range(prevConversations) THEN fired[c] + 1 ELSE fired[c]]

InitConvs ==
  /\ conversations = <<>> /\ messages = <<>> /\ clock = 1 /\ indexEnforced = TRUE
  /\ reqs = [r \in Slots |-> IdleReq] /\ calls = 0 /\ gocResults = {}
  /\ api = NoCall /\ poller = IdlePoller
  /\ feed = IdleFeed /\ fb = NoFallback /\ paging = FirstPage
  /\ convView = [IdleConvView EXCEPT !.fired = [c \in 1..MaxShown |-> 0]]
  /\ InitMergeIdle
  /\ InitClientIdle

ConvsFrame ==
  UNCHANGED <<messages, clock, indexEnforced, mergeVars, reqVars, apiVars, pollVars, feed, fb,
              paging, queuedMessages, offlineQueue, cache, localMessages, lastData, send,
              composed, surfaced, acked, removed, sends>>

\* a conversation between Me and another user is created: getOrCreateConversation
ConvCreate(other) ==
  /\ Len(conversations) < MaxShown
  /\ LET got == findOrCreateConversation(conversations, Me, other)
     IN /\ got.ok /\ got.convs # conversations
        /\ conversations' = got.convs
  /\ UNCHANGED <<online, flaps, convView>>
  /\ ConvsFrame

\* one poll cycle of useConversations: fetchConversations, usePolling's comparison with the
\* value handed on last, and the merge effect
ConvPoll(outcome) ==
  /\ convView.polls < MaxConvPolls
  /\ LET got == fetchConversations(conversations, online, outcome)
         changed == ~convView.data.set \/ got.value # convView.data.value
     IN convView' = [convView EXCEPT
                       !.polls = @ + 1,
                       !.last = got.how,
                       !.data = [set |-> TRUE, value |-> got.value],
                       !.list = IF changed THEN got.value ELSE @,
                       !.fired = IF changed
                                 THEN NotifyNewConversations(@, convView.list, got.value)
                                 ELSE @]
  /\ UNCHANGED <<conversations, online, flaps>>
  /\ ConvsFrame

\* the browser's offline event
ConvOffline ==
  /\ online /\ flaps < MaxFlaps
  /\ online' = FALSE /\ flaps' = flaps + 1
  /\ UNCHANGED <<conversations, convView>>
  /\ ConvsFrame

\* the browser's online event
ConvOnline ==
  /\ ~online
  /\ online' = TRUE
  /\ UNCHANGED <<conversations, flaps, convView>>
  /\ ConvsFrame

NextConvs ==
  \/ \E other \in {Peer, 3} : ConvCreate(other)
  \/ \E outcome \in {"served", "lost"} : ConvPoll(outcome)
  \/ ConvOffline
  \/ ConvOnline

SpecConvs == InitConvs /\ [][NextConvs]_vars

\* C38: a poll cycle made offline, or whose request failed, leaves the displayed list as
\* it was, and onNewConversation fires at most once for a conversation
C38_OfflinePollKeepsList ==
  /\ [][(convView'.polls # convView.polls /\ convView'.last \in {"offline", "failed"}) =>
          convView'.list = convView.list]_vars
  /\ [](\A c \in 1..MaxShown : convView.fired[c] <= 1)

\* the notification half of C38 alone
FiredAtMostOnce == \A c \in 1..MaxShown : convView.fired[c] <= 1

\* ============================================================== SpecCache
\* MessageCache of messageSync.ts: the lists set() and append() leave in one conversation

MaxAppends == 3
ListSizes == {0, 1, 2, CacheCap - 1, CacheCap, CacheCap + 1, CacheCap + 2}
AppendIds == {1} \cup {CacheCap + 2 + k : k \in 1..MaxAppends}

\* a UI message of the conversation; identities are handed out in creation order
CacheMessage(id) == [id |-> id, createdAt |-> id, shape |-> "ui"]

\* the timeline of n messages, as useMessages keeps it (newest first) or in creation order
Timeline(n, order) ==
  [k \in 1..n |-> CacheMessage(IF order = "newestFirst" THEN n + 1 - k ELSE k)]

InitCache ==
  /\ cache = <<>> /\ incoming = <<>> /\ mpc = "off"
  /\ existing = <<>> /\ merged = <<>> /\ remerged = <<>> /\ hookMerged = <<>>
  /\ conversations = <<>> /\ messages = <<>> /\ clock = 1 /\ indexEnforced = TRUE
  /\ InitReqs
  /\ online = TRUE /\ queuedMessages = <<>> /\ offlineQueue = <<>>
  /\ localMessages = <<>> /\ lastData = [set |-> FALSE, messages |-> <<>>]
  /\ send = IdleSend
  /\ composed = 0 /\ surfaced = {} /\ acked = {} /\ removed = {}
  /\ flaps = 0 /\ sends = <<>>

CacheFrame ==
  UNCHANGED <<existing, merged, remerged, hookMerged, storeVars, reqVars, apiVars, pollVars,
              hookVars, online, queuedMessages, offlineQueue, localMessages, lastData, send,
              composed, surfaced, acked, removed, flaps, sends>>

\* useMessageSync.saveToCache(conversationId, list): MessageCache.setCache of the list
CacheSet(n, order) ==
  /\ incoming' = Timeline(n, order)
  /\ cache' = saveToCache(incoming')
  /\ mpc' = "set"
  /\ CacheFrame

\* MessageCache.addToCache(conversationId, message)
CacheAppend(id) ==
  /\ Len(cache) > 0
  /\ cache' = addToCache(cache, [CacheMessage(id) EXCEPT !.shape = "data"])
  /\ cache' # cache \/ id \in {cache[k].id : k \in 1..Len(cache)}
  /\ mpc' = "append"
  /\ UNCHANGED incoming
  /\ CacheFrame

NextCache ==
  \/ \E n \in ListSizes, order \in {"newestFirst", "oldestFirst"} : CacheSet(n, order)
  \/ \E id \in AppendIds : CacheAppend(id)

SpecCache == InitCache /\ [][NextCache]_vars

\* the entries of list with the n most recent creation times
MostRecent(list, n) ==
  {list[k].id : k \in {j \in 1..Len(list) :
     Cardinality({x \in 1..Len(list) : list[x].createdAt > list[j].createdAt}) < n}}

\* C34: set(list) keeps the min(100, |list|) entries of list with the most recent creation
\* times, and a conversation never holds more than 100 entries
C34_KeepsMostRecent ==
  /\ Len(cache) <= CacheCap
  /\ mpc = "set" => {cache[k].id : k \in 1..Len(cache)} = MostRecent(incoming, CacheCap)

\* the size half of C34 alone
NeverOverCap == Len(cache) <= CacheCap

\* the eviction half of C34 for lists in creation order
OldestFirstKeepsMostRecent ==
  (mpc = "set" /\ (Len(incoming) < 2 \/ incoming[1].createdAt < incoming[2].createdAt)) =>
    {cache[k].id : k \in 1..Len(cache)} = MostRecent(incoming, CacheCap)

\* ============================================================== SpecOrder
\* two poll responses for one conversation applied to one local set in both orders

MaxResponse == 3

\* a list the messages endpoint can answer with: one entry per message, newest first
ServerResponses ==
  {r \in SeqsUpTo(MsgUniverse, MaxResponse) :
     /\ \A i, j \in 1..Len(r) : r[i].id = r[j].id => i = j
     /\ \A i \in 1..(Len(r) - 1) : r[i].createdAt >= r[i + 1].createdAt}

\* b reflects a server state not earlier than a: no message is lost, no status goes back
NotEarlier(a, b) ==
  \A i \in 1..Len(a) : \E j \in 1..Len(b) :
    /\ b[j].id = a[i].id
    /\ a[i].status = "seen" => b[j].status = "seen"

InitOrder ==
  /\ localMessages \in ServerResponses
  /\ existing \in ServerResponses
  /\ incoming \in ServerResponses
  /\ NotEarlier(localMessages, existing)
  /\ NotEarlier(existing, incoming)
  /\ merged = <<>> /\ remerged = <<>> /\ hookMerged = <<>>
  /\ mpc = "input"
  /\ conversations = <<>> /\ messages = <<>> /\ clock = 1 /\ indexEnforced = TRUE
  /\ InitReqs
  /\ online = TRUE /\ queuedMessages = <<>> /\ offlineQueue = <<>>
  /\ cache = <<>> /\ lastData = [set |-> FALSE, messages |-> <<>>]
  /\ send = IdleSend
  /\ composed = 0 /\ surfaced = {} /\ acked = {} /\ removed = {}
  /\ flaps = 0 /\ sends = <<>>

OrderFrame ==
  UNCHANGED <<existing, incoming, hookMerged, storeVars, reqVars, apiVars, pollVars, hookVars,
              clientVars>>

\* the merge effect runs for the earlier response (existing), then for the later (incoming)
ApplyInOrder ==
  /\ mpc = "input"
  /\ merged' = MergeEffect(MergeEffect(localMessages, existing), incoming)
  /\ mpc' = "inOrder"
  /\ UNCHANGED remerged
  /\ OrderFrame

\* the merge effect runs for the later response first, then for the earlier one
ApplyOutOfOrder ==
  /\ mpc = "inOrder"
  /\ remerged' = MergeEffect(MergeEffect(localMessages, incoming), existing)
  /\ mpc' = "both"
  /\ UNCHANGED merged
  /\ OrderFrame

NextOrder == ApplyInOrder \/ ApplyOutOfOrder

SpecOrder == InitOrder /\ [][NextOrder]_vars

\* every entry of out carries the status the later response gives its message
LatestStatus(out) ==
  \A i \in 1..Len(out) : \A j \in 1..Len(incoming) :
    incoming[j].id = out[i].id => out[i].status = incoming[j].status

\* C35: applying two responses in either order gives the same local message set, and each
\* message carries its latest server status
C35_OrderConverges ==
  mpc = "both" =>
    /\ Range(merged) = Range(remerged)
    /\ LatestStatus(merged)
    /\ LatestStatus(remerged)

\* the two halves of C35 alone, and the identities of the result
SameFinalSet == mpc = "both" => Range(merged) = Range(remerged)
InOrderLatest == mpc = "both" => LatestStatus(merged)
SameIdentities == mpc = "both" => IdsOf(merged) = IdsOf(remerged)

\* ============================================================== SpecPage
\* useMessages with loadMore: the page of the conversation each poll cycle asks for

MaxNew == 2
MaxLoads == 2
PageStored == {0, initialLimit - 1, initialLimit, initialLimit + 1}

InitPage ==
  /\ \E total \in PageStored :
       /\ messages = [i \in 1..total |->
                        NewMessage(OpenConversation, Peer, Me, Body(0, 2, 0), i)]
       /\ conversations = <<[NewConversation(SortedIds(Me, Peer)) EXCEPT
                               !.lastMessage = total, !.lastMessageTime = total]>>
       /\ clock = total + 1
  /\ indexEnforced = TRUE
  /\ InitReqs
  /\ InitMergeIdle
  /\ InitClientIdle

PageFrame ==
  UNCHANGED <<indexEnforced, mergeVars, reqVars, apiVars, pollVars, feed, fb, convView, online,
              queuedMessages, offlineQueue, send, composed, surfaced, acked, removed, flaps>>

\* useMessages fetchMessages with the skip its closure holds: the served page, or the
\* cache when the request fails
fetchMessages(msgs, cached, currentSkip, outcome) ==
  IF outcome = "served"
  THEN LET page == ListMessages(msgs, OpenConversation, initialLimit, currentSkip)
       IN [set |-> TRUE, messages |-> page, hasMore |-> Len(page) = initialLimit,
           skip |-> currentSkip]
  ELSE [set |-> TRUE, messages |-> syncFromCache(cached), hasMore |-> FALSE,
        skip |-> currentSkip]

\* the user Peer sends the k-th new message to the open conversation
PageCreate ==
  /\ Len(sends) < MaxNew
  /\ LET content == Body(Len(sends) + 1, 2, 0)
         res == ServeCreateMessage(conversations, messages, clock, Peer,
                                   Request(OpenConversation, Me, content))
     IN /\ res.status = 201
        /\ conversations' = res.convs /\ messages' = res.msgs /\ clock' = res.now
        /\ sends' = Append(sends, SendRecord(content, FALSE, FALSE, "peer", TRUE, TRUE))
  /\ UNCHANGED <<localMessages, cache, lastData, paging>>
  /\ PageFrame

\* one poll cycle: fetchMessages, usePolling's comparison, the merge effect with setHasMore
PagePoll(outcome) ==
  /\ \E newData \in {fetchMessages(messages, cache, paging.skip, outcome)} :
       IF newData = lastData
       THEN UNCHANGED <<lastData, localMessages, cache, paging>>
       ELSE \E sortedMessages \in {MergeEffect(localMessages, newData.messages)} :
              /\ lastData' = newData
              /\ paging' = [paging EXCEPT !.hasMore = newData.hasMore]
              /\ localMessages' = sortedMessages
              /\ cache' = saveToCache(sortedMessages)
  /\ UNCHANGED <<storeVars, sends>>
  /\ PageFrame

\* useMessages loadMore: setSkip(prev + initialLimit), then refresh(), a poll cycle whose
\* fetch still runs with the skip of the closure it was created in
LoadMore(outcome) ==
  /\ paging.loads < MaxLoads
  /\ IF ~paging.hasMore
     THEN /\ paging' = [paging EXCEPT !.loads = @ + 1]
          /\ UNCHANGED <<lastData, localMessages, cache>>
     ELSE LET newData == fetchMessages(messages, cache, paging.skip, outcome)
          IN IF newData = lastData
             THEN /\ paging' = [paging EXCEPT !.skip = @ + initialLimit, !.loads = @ + 1]
                  /\ UNCHANGED <<lastData, localMessages, cache>>
             ELSE /\ lastData' = newData
                  /\ paging' = [skip |-> paging.skip + initialLimit,
                                hasMore |-> newData.hasMore, loads |-> paging.loads + 1]
                  /\ localMessages' = MergeEffect(localMessages, newData.messages)
                  /\ cache' = saveToCache(localMessages')
  /\ UNCHANGED <<storeVars, sends>>
  /\ PageFrame

NextPage ==
  \/ PageCreate
  \/ \E outcome \in {"served", "lost"} : PagePoll(outcome)
  \/ \E outcome \in {"served", "lost"} : LoadMore(outcome)

SpecPage == InitPage /\ [][NextPage]_vars

\* the interval timer keeps firing, and requests are served again and again
SpecPageLive == SpecPage /\ WF_vars(PagePoll("served"))

\* the k-th new message is stored / is in the local timeline
Created(k) == \E m \in 1..Len(messages) : messages[m].content.tag = k
Observed(k) == \E i \in 1..Len(localMessages) : localMessages[i].tag = k

\* C37: whatever loadMore calls were made, a newly created message eventually appears in
\* the local timeline
C37_NewMessageObserved == \A k \in 1..MaxNew : Created(k) ~> Observed(k)

\* the same while loadMore has not moved the offset
ObservedAtFirstPage ==
  \A k \in 1..MaxNew : (Created(k) /\ paging.skip = 0) ~> (Observed(k) \/ paging.skip # 0)

\* loadMore never moves the offset back
SkipNeverReset == [][paging'.skip >= paging.skip]_vars

\* ============================================================== SpecImage
\* the create-message endpoint called with an image URL in the body

\* imageUrl values a body may carry: absent, "https://x", "https://", "ftp://x"
ImageInputs ==
  {NoImage, [scheme |-> "https", rest |-> 1], [scheme |-> "https", rest |-> 0],
   [scheme |-> "ftp", rest |-> 1]}

\* POST /api/messages {conversationId?, recipientId, content, imageUrl} by senderId
PostImage(senderId, conversationId, recipientId, imageUrl) ==
  /\ LET res == ServeCreateMessage(conversations, messages, clock, senderId,
                  RequestWithImage(conversationId, recipientId, Body(0, 2, 0), imageUrl))
     IN /\ Len(res.convs) <= MaxConvs /\ Len(res.msgs) <= MaxApiMessages
        /\ conversations' = res.convs /\ messages' = res.msgs /\ clock' = res.now
        /\ api' = Called("postImage", senderId, conversationId, res.status, res.id)
  /\ UNCHANGED <<indexEnforced, reqVars, mergeVars, clientVars, pollVars, hookVars>>

NextImage ==
  \/ \E u \in UserIds, v \in RecipientInputs : CreateConversation(u, v)
  \/ \E u \in UserIds, c \in 0..MaxConvs, v \in RecipientInputs, imageUrl \in ImageInputs :
        PostImage(u, c, v, imageUrl)

SpecImage == InitApi /\ [][NextImage]_vars

\* this step served a create-message request without conversationId that did not end in 201
RefusedWithoutConversation ==
  api'.op = "postImage" /\ api'.target = NoId /\ api'.status # 201

\* C39: a create-message request without conversationId that does not end in 201 leaves
\* the store as it was
C39_RefusedLeavesStore ==
  [][RefusedWithoutConversation =>
       (conversations' = conversations /\ messages' = messages)]_vars

\* the same for the requests refused with 400, and no message is stored by a refused one
RefusedWith400LeavesStore ==
  [][(RefusedWithoutConversation /\ api'.status = 400) =>
       (conversations' = conversations /\ messages' = messages)]_vars
RefusedStoresNoMessage == [][RefusedWithoutConversation => messages' = messages]_vars

=============================================================================
